---- MODULE Spec2Model ----
(***************************************************************************)
(* Model of the snow-math numeric core (ext/snow-math/*.c).                *)
(*                                                                         *)
(* The library is a set of C functions over caller-owned flat buffers of   *)
(* s_float_t.  The model keeps the caller's buffers in a memory `mem`      *)
(* (buffer name -> array indexed from 0), and every C function is an       *)
(* operator that takes a memory and pointers into it and returns the       *)
(* memory after the call.  Stores happen in source order and every load    *)
(* reads the memory as it is at that point, so a call whose output buffer  *)
(* is one of its input buffers behaves as the C code does.                 *)
(*                                                                         *)
(* s_float_t values are modelled as exact rationals <<num, den>> in lowest *)
(* terms with den > 0; +, -, *, / are exact.  On the small integer inputs  *)
(* used here IEEE arithmetic is exact whenever the result is dyadic.       *)
(***************************************************************************)
EXTENDS Integers, Sequences, FiniteSets, TLC

VARIABLES
  mem,    \* the caller's buffers after the last call
  pre,    \* the caller's buffers before the last call
  fn,     \* name of the library function called last ("" before a call)
  args,   \* its arguments: buffer names, then scalars
  ret,    \* its return value (0 for a void function)
  done    \* the calls made before the last one, oldest first

vars == <<mem, pre, fn, args, ret, done>>

----
(* Bounds of the explored inputs *)

\* matrix elements of the parametric input families range over -MaxVal..MaxVal
MaxVal == 1

Vals == (0 - MaxVal)..MaxVal

----
(* s_float_t arithmetic *)

Abs(n) == IF n < 0 THEN 0 - n ELSE n

RECURSIVE GCD(_, _)
GCD(a, b) == IF b = 0 THEN a ELSE GCD(b, a % b)

\* the rational n/d in lowest terms; d = 0 marks a value that is not a number
Norm(n, d) ==
  IF d = 0 THEN <<0, 0>>
  ELSE LET g == GCD(Abs(n), Abs(d))
           s == IF d < 0 THEN 0 - 1 ELSE 1
       IN <<(s * n) \div g, (s * d) \div g>>

F(n) == <<n, 1>>

\* sums are taken over the least common denominator
FAdd(x, y) ==
  IF x[2] = 0 \/ y[2] = 0 THEN <<0, 0>>
  ELSE LET g == GCD(x[2], y[2])
       IN Norm(x[1] * (y[2] \div g) + y[1] * (x[2] \div g), (x[2] \div g) * y[2])
FNeg(x)    == <<0 - x[1], x[2]>>
FSub(x, y) == FAdd(x, FNeg(y))
FMul(x, y) == Norm(x[1] * y[1], x[2] * y[2])
FDiv(x, y) == Norm(x[1] * y[2], x[2] * y[1])
FNonZero(x) == x[1] # 0

\* S_FLOAT_EPSILON is 1 / EpsilonDen
EpsilonDen == 1000000000

s_fabs(x) == <<Abs(x[1]), x[2]>>

\* x < S_FLOAT_EPSILON for x >= 0:  n/d < 1/K  iff  n*K < d  iff  n <= (d-1) \div K
BelowEpsilon(x) == x[1] <= (x[2] - 1) \div EpsilonDen

\* mutant: the test is x == 0 instead of |x| < S_FLOAT_EPSILON
float_is_zero_exact(x) == x[1] = 0

float_is_zero(x) == BelowEpsilon(s_fabs(x))

FLess(x, y) == FSub(x, y)[1] < 0

IsNaN(x) == x[2] = 0

----
(* libm: sqrt, sin, cos, acos *)
(* A result that is rational is returned exactly; any other result is     *)
(* returned rounded to a decimal grid, where the C library rounds to the  *)
(* nearest double.                                                         *)

\* largest integer of the model's arithmetic
IntLimit == 2147483647

\* floor(x * S) for an integer S > 0; x is first cut to a denominator of at
\* most IntLimit / S so that no intermediate product leaves the integers
Fix(x, S) ==
  LET k == x[2] \div (IntLimit \div S) + 1
      n == x[1] \div k
      d == x[2] \div k
  IN (n \div d) * S + ((n % d) * S) \div d

\* x * S rounded to the nearest integer
RoundFix(x, S) == (Fix(x, 2 * S) + 1) \div 2

\* floor of the square root of n, lo <= sqrt(n) < hi
RECURSIVE ISqrtBetween(_, _, _)
ISqrtBetween(n, lo, hi) ==
  IF hi - lo <= 1 THEN lo
  ELSE LET mid == (lo + hi) \div 2
       IN IF mid * mid <= n THEN ISqrtBetween(n, mid, hi) ELSE ISqrtBetween(n, lo, mid)

ISqrt(n) == ISqrtBetween(n, 0, 46341)

\* sqrt results that are not rational are cut to a multiple of 1 / SqrtUnit
SqrtUnit == 1000

IsSquare(n) == ISqrt(n) * ISqrt(n) = n

s_sqrt(x) ==
  IF IsNaN(x) \/ x[1] < 0 THEN <<0, 0>>
  ELSE IF IsSquare(x[1]) /\ IsSquare(x[2]) THEN <<ISqrt(x[1]), ISqrt(x[2])>>
  ELSE Norm(ISqrt(Fix(x, SqrtUnit * SqrtUnit)), SqrtUnit)

\* angles and the results of sin, cos, acos are multiples of 1 / TrigUnit
TrigUnit == 10000

\* pi and pi / 2 in that unit
PiFix == 31416
HalfPiFix == 15708

\* sin r and cos r for 0 <= r <= pi / 4, by their Taylor series
SinSeries(r) ==
  LET r2 == (r * r) \div TrigUnit
      t3 == (r * r2) \div (6 * TrigUnit)
      t5 == (t3 * r2) \div (20 * TrigUnit)
      t7 == (t5 * r2) \div (42 * TrigUnit)
  IN r - t3 + t5 - t7

CosSeries(r) ==
  LET r2 == (r * r) \div TrigUnit
      c2 == r2 \div 2
      c4 == (c2 * r2) \div (12 * TrigUnit)
      c6 == (c4 * r2) \div (30 * TrigUnit)
  IN TrigUnit - c2 + c4 - c6

SinSmall(r) == IF r < 0 THEN 0 - SinSeries(0 - r) ELSE SinSeries(r)
CosSmall(r) == CosSeries(Abs(r))

\* the nearest multiple of pi / 2 and what is left of X
Quadrant(X) == ((X + HalfPiFix \div 2) \div HalfPiFix) % 4
Residue(X) == X - ((X + HalfPiFix \div 2) \div HalfPiFix) * HalfPiFix

SinFix(X) ==
  CASE Quadrant(X) = 0 -> SinSmall(Residue(X))
    [] Quadrant(X) = 1 -> CosSmall(Residue(X))
    [] Quadrant(X) = 2 -> 0 - SinSmall(Residue(X))
    [] OTHER           -> 0 - CosSmall(Residue(X))

CosFix(X) == SinFix(X + HalfPiFix)

s_sin(x) == IF IsNaN(x) THEN <<0, 0>> ELSE Norm(SinFix(RoundFix(x, TrigUnit)), TrigUnit)
s_cos(x) == IF IsNaN(x) THEN <<0, 0>> ELSE Norm(CosFix(RoundFix(x, TrigUnit)), TrigUnit)

\* tan is sin / cos on the grid; where the grid cosine is 0 the C library
\* returns a finite value beyond every other one
s_tan(x) ==
  IF IsNaN(x) THEN <<0, 0>>
  ELSE LET X == RoundFix(x, TrigUnit)
       IN IF CosFix(X) = 0 THEN <<IF SinFix(X) < 0 THEN 0 - IntLimit ELSE IntLimit, 1>>
          ELSE Norm(RoundFix(Norm(SinFix(X), CosFix(X)), TrigUnit), TrigUnit)

\* the least angle in lo..hi whose cosine is at most X; cos hi <= X
RECURSIVE AcosBetween(_, _, _)
AcosBetween(X, lo, hi) ==
  IF CosFix(lo) <= X THEN lo
  ELSE IF hi - lo <= 1 THEN hi
  ELSE LET mid == (lo + hi) \div 2
       IN IF CosFix(mid) <= X THEN AcosBetween(X, lo + 1, mid) ELSE AcosBetween(X, mid, hi)

s_acos(x) ==
  IF IsNaN(x) \/ FLess(F(1), x) \/ FLess(x, F(0 - 1)) THEN <<0, 0>>
  ELSE IF x[1] < 0
  THEN Norm(PiFix - AcosBetween(RoundFix(FNeg(x), TrigUnit), 0, HalfPiFix), TrigUnit)
  ELSE Norm(AcosBetween(RoundFix(x, TrigUnit), 0, HalfPiFix), TrigUnit)

\* degrees to radians
S_DEG2RAD == <<1745329, 100000000>>

----
(* Memory: buffers, pointers, loads and stores *)

\* a pointer is <<buffer name, offset>>
Ptr(name) == <<name, 0>>

Ld(m, p, i) == m[p[1]][p[2] + i]

St(m, p, i, v) == [m EXCEPT ![p[1]][p[2] + i] = v]

\* a value of an automatic array that was never written
Uninit == <<0, 0>>

\* enter a function that declares the automatic array `name` of n elements
Alloc(m, name, n) ==
  [b \in (DOMAIN m) \cup {name} |->
     IF b = name THEN [i \in 0..(n - 1) |-> Uninit] ELSE m[b]]

\* leave it
Free(m, name) == [b \in (DOMAIN m) \ {name} |-> m[b]]

\* store the values vs[0..n-1] to p[0..n-1] in index order
RECURSIVE StSeq(_, _, _, _)
StSeq(m, p, vs, i) ==
  IF i > Len(vs) THEN m ELSE StSeq(St(m, p, i - 1, vs[i]), p, vs, i + 1)

\* out[j] = in[i]
Cp(m, in, i, out, j) == St(m, out, j, Ld(m, in, i))

\* an array from a sequence of integers
Arr(s) == [i \in 0..(Len(s) - 1) |-> F(s[i + 1])]

----
(* mat3.c *)

g_mat3_identity == Arr(<<1, 0, 0,  0, 1, 0,  0, 0, 1>>)

mat3_swap_elem(m, in, out, L, R) ==
  LET temp == Ld(m, in, L)
      m1   == St(m, out, L, Ld(m, in, R))
  IN St(m1, out, R, temp)

mat3_transpose(m, in, out) ==
  LET m1 == Cp(m, in, 0, out, 0)
      m2 == Cp(m1, in, 4, out, 4)
      m3 == Cp(m2, in, 8, out, 8)
      m4 == mat3_swap_elem(m3, in, out, 1, 3)
      m5 == mat3_swap_elem(m4, in, out, 2, 6)
  IN mat3_swap_elem(m5, in, out, 5, 7)

RECURSIVE CopyFrom(_, _, _, _, _)
CopyFrom(m, in, out, i, n) ==
  IF i >= n THEN m ELSE CopyFrom(St(m, out, i, Ld(m, in, i)), in, out, i + 1, n)

mat3_copy(m, in, out) == CopyFrom(m, in, out, 0, 9)

\* temp[k] = (cx * rhs[j]) + (cy * rhs[j + 1]) + (cz * rhs[j + 2])
mat3_multiply_elem(m, temp, k, rhs, j, cx, cy, cz) ==
  St(m, temp, k,
     FAdd(FAdd(FMul(cx, Ld(m, rhs, j)), FMul(cy, Ld(m, rhs, j + 1))), FMul(cz, Ld(m, rhs, j + 2))))

\* one row of the product: cx, cy, cz are read, then temp[base..base+2] written
mat3_multiply_row(m, temp, rhs, base) ==
  LET cx == Ld(m, temp, base)
      cy == Ld(m, temp, base + 1)
      cz == Ld(m, temp, base + 2)
      m1 == mat3_multiply_elem(m, temp, base, rhs, 0, cx, cy, cz)
      m2 == mat3_multiply_elem(m1, temp, base + 1, rhs, 3, cx, cy, cz)
  IN mat3_multiply_elem(m2, temp, base + 2, rhs, 6, cx, cy, cz)

\* mutant: no temporary, out itself is the scratch matrix
mat3_multiply_in_place(m, lhs, rhs, out) ==
  LET m1 == mat3_transpose(m, lhs, out)
      m2 == mat3_multiply_row(m1, out, rhs, 0)
      m3 == mat3_multiply_row(m2, out, rhs, 3)
      m4 == mat3_multiply_row(m3, out, rhs, 6)
  IN mat3_transpose(m4, out, out)

mat3_multiply(m, lhs, rhs, out) ==
  LET temp == Ptr("mat3_multiply.temp")
      m0 == Alloc(m, temp[1], 9)
      m1 == mat3_transpose(m0, lhs, temp)
      m2 == mat3_multiply_row(m1, temp, rhs, 0)
      m3 == mat3_multiply_row(m2, temp, rhs, 3)
      m4 == mat3_multiply_row(m3, temp, rhs, 6)
      m5 == mat3_transpose(m4, temp, out)
  IN Free(m5, temp[1])

\* row components (mat3.c)
S_MR_X == 0
S_MR_Y == 1
S_MR_Z == 2
S_MS_X == 3
S_MS_Y == 4
S_MS_Z == 5
S_MT_X == 6
S_MT_Y == 7
S_MT_Z == 8

mat3_cofactor(m, in, out) ==
  LET temp == Ptr("mat3_cofactor.temp")
      e(i) == Ld(m, in, i)
      minor(p, q, r, s) == FSub(FMul(e(p), e(q)), FMul(e(r), e(s)))
      init == <<
             minor(S_MS_Y, S_MT_Z, S_MS_Z, S_MT_Y),
        FNeg(minor(S_MS_X, S_MT_Z, S_MS_Z, S_MT_X)),
             minor(S_MS_X, S_MT_Y, S_MS_Y, S_MT_X),

        FNeg(minor(S_MR_Y, S_MT_Z, S_MR_Z, S_MT_Y)),
             minor(S_MR_X, S_MT_Z, S_MR_Z, S_MT_X),
        FNeg(minor(S_MR_X, S_MT_Y, S_MR_Y, S_MT_X)),

             minor(S_MR_Y, S_MS_Z, S_MR_Z, S_MS_Y),
        FNeg(minor(S_MR_X, S_MS_Z, S_MR_Z, S_MS_X)),
             minor(S_MR_X, S_MS_Y, S_MR_Y, S_MS_X) >>
      m0 == StSeq(Alloc(m, temp[1], 9), temp, init, 1)
  IN Free(mat3_copy(m0, temp, out), temp[1])

mat3_determinant(m, in) ==
  LET e(i) == Ld(m, in, i)
      minor(p, q, r, s) == FSub(FMul(e(p), e(q)), FMul(e(r), e(s)))
  IN FAdd(FAdd(FMul(e(S_MR_X), minor(S_MS_Y, S_MT_Z, S_MS_Z, S_MT_Y)),
               FMul(e(S_MR_Y), minor(S_MS_Z, S_MT_X, S_MS_X, S_MT_Z))),
          FMul(e(S_MR_Z), minor(S_MS_X, S_MT_Y, S_MS_Y, S_MT_X)))

\* out[i] *= k for i = from..to, in index order
RECURSIVE ScaleFrom(_, _, _, _, _)
ScaleFrom(m, out, k, i, n) ==
  IF i >= n THEN m ELSE ScaleFrom(St(m, out, i, FMul(Ld(m, out, i), k)), out, k, i + 1, n)

\* a call's result: the memory after it and the value it returns
Result(m, r) == [mem |-> m, ret |-> r]

mat3_inverse(m, in, out) ==
  LET det == mat3_determinant(m, in)
  IN IF ~float_is_zero(det)
     THEN LET determinant == FDiv(F(1), det)
              m1 == mat3_cofactor(m, in, out)
              m2 == mat3_transpose(m1, out, out)
          IN Result(ScaleFrom(m2, out, determinant, 0, 9), 1)
     ELSE Result(m, 0)

mat3_rotation(m, angle, x, y, z, out) ==
  LET angle_rad == FMul(angle, S_DEG2RAD)
      c  == s_cos(angle_rad)
      s  == s_sin(angle_rad)
      ic == FSub(F(1), c)
      xy == FMul(FMul(x, y), ic)
      yz == FMul(FMul(y, z), ic)
      xz == FMul(FMul(x, z), ic)
      xs == FMul(s, x)
      ys == FMul(s, y)
      zs == FMul(s, z)
      xx == FMul(x, x)
      yy == FMul(y, y)
      zz == FMul(z, z)
  IN StSeq(m, out,
           << FAdd(xx, FMul(c, FSub(F(1), xx))),
              FSub(FMul(xy, ic), zs),
              FAdd(FMul(FMul(z, x), ic), ys),
              FAdd(FMul(xy, ic), zs),
              FAdd(yy, FMul(c, FSub(F(1), yy))),
              FSub(FMul(yz, ic), xs),
              FSub(FMul(xz, ic), ys),
              FAdd(FMul(yz, ic), xs),
              FAdd(zz, FMul(c, FSub(F(1), zz))) >>, 1)

mat3_to_mat4(m, in, out) ==
  StSeq(m, out,
        << Ld(m, in, 0), Ld(m, in, 1), Ld(m, in, 2), F(0),
           Ld(m, in, 3), Ld(m, in, 4), Ld(m, in, 5), F(0),
           Ld(m, in, 6), Ld(m, in, 7), Ld(m, in, 8), F(0),
           F(0), F(0), F(0), F(1) >>, 1)

mat3_from_quat(m, in, out) ==
  LET xx == FMul(Ld(m, in, 0), Ld(m, in, 0))
      xy == FMul(Ld(m, in, 0), Ld(m, in, 1))
      xz == FMul(Ld(m, in, 0), Ld(m, in, 2))
      yy == FMul(Ld(m, in, 1), Ld(m, in, 1))
      yz == FMul(Ld(m, in, 2), Ld(m, in, 2))
      zz == FMul(Ld(m, in, 2), Ld(m, in, 2))
      wx == FMul(Ld(m, in, 0), Ld(m, in, 3))
      wy == FMul(Ld(m, in, 1), Ld(m, in, 3))
      wz == FMul(Ld(m, in, 2), Ld(m, in, 3))
  IN StSeq(m, out,
           << FSub(F(1), FMul(F(2), FAdd(yy, zz))),
              FMul(F(2), FSub(xy, wz)),
              FMul(F(2), FAdd(xz, wy)),
              FMul(F(2), FAdd(xy, wz)),
              FSub(F(1), FMul(F(2), FAdd(xx, zz))),
              FMul(F(2), FSub(yz, wx)),
              FMul(F(2), FSub(xz, wy)),
              FMul(F(2), FAdd(yz, wx)),
              FSub(F(1), FMul(F(2), FAdd(xx, yy))) >>, 1)

\* temp[k] * rhs[0] + temp[k + 1] * rhs[1] + temp[k + 2] * rhs[2]
mat3_rotate_vec3_dot(m, temp, k, rhs) ==
  FAdd(FAdd(FMul(Ld(m, temp, k), Ld(m, rhs, 0)), FMul(Ld(m, temp, k + 1), Ld(m, rhs, 1))),
       FMul(Ld(m, temp, k + 2), Ld(m, rhs, 2)))

\* mat3_rotate_vec3 after the transpose: x, y, z are computed, then stored
mat3_rotate_vec3_out(m, temp, rhs, out) ==
  StSeq(m, out, << mat3_rotate_vec3_dot(m, temp, 0, rhs),
                   mat3_rotate_vec3_dot(m, temp, 3, rhs),
                   mat3_rotate_vec3_dot(m, temp, 6, rhs) >>, 1)

mat3_rotate_vec3(m, lhs, rhs, out) ==
  LET temp == Ptr("mat3_rotate_vec3.temp")
      m1   == mat3_transpose(Alloc(m, temp[1], 9), lhs, temp)
  IN Free(mat3_rotate_vec3_out(m1, temp, rhs, out), temp[1])

\* out[0] = in[i0]; out[1] = in[i1]; out[2] = in[i2];
Gather3(m, in, out, i0, i1, i2) == Cp(Cp(Cp(m, in, i0, out, 0), in, i1, out, 1), in, i2, out, 2)

\* out[i0] = in[0]; out[i1] = in[1]; out[i2] = in[2];
Scatter3(m, in, out, i0, i1, i2) == Cp(Cp(Cp(m, in, 0, out, i0), in, 1, out, i1), in, 2, out, i2)

mat3_get_column3(m, in, column, out) ==
  CASE column = 0 -> Gather3(m, in, out, 0, 3, 6)
    [] column = 1 -> Gather3(m, in, out, 1, 4, 7)
    [] column = 2 -> Gather3(m, in, out, 2, 5, 8)
    [] OTHER      -> m

mat3_set_column3(m, column, in, out) ==
  CASE column = 0 -> Scatter3(m, in, out, 0, 3, 6)
    [] column = 1 -> Scatter3(m, in, out, 3, 4, 5)
    [] column = 2 -> Scatter3(m, in, out, 6, 7, 8)
    [] OTHER      -> m

----
(* mat4.c *)

g_mat4_identity == Arr(<<1, 0, 0, 0,   0, 1, 0, 0,   0, 0, 1, 0,   0, 0, 0, 1>>)

\* store v to out[k] for the indices k of ks, last to first (a chained assignment)
RECURSIVE StChain(_, _, _, _, _)
StChain(m, out, ks, v, i) ==
  IF i < 1 THEN m ELSE StChain(St(m, out, ks[i], v), out, ks, v, i - 1)

\* mutant: only the diagonal is written
mat4_identity_diag_only(m, out) == StChain(m, out, <<0, 5, 10, 15>>, F(1), 4)

mat4_identity(m, out) ==
  LET m1 == StChain(m, out, <<0, 5, 10, 15>>, F(1), 4)
  IN StChain(m1, out, <<1, 2, 3, 4, 6, 7, 8, 9, 11, 12, 13, 14>>, F(0), 12)

mat4_copy(m, in, out) == CopyFrom(m, in, out, 0, 16)

mat4_swap_elem(m, in, out, X, Y) ==
  LET temp == Ld(m, in, X)
      m1   == St(m, out, X, Ld(m, in, Y))
  IN St(m1, out, Y, temp)

mat4_transpose(m, in, out) ==
  LET m1 == mat4_swap_elem(m, in, out, 1, 4)
      m2 == mat4_swap_elem(m1, in, out, 8, 2)
      m3 == mat4_swap_elem(m2, in, out, 9, 6)
      m4 == mat4_swap_elem(m3, in, out, 12, 3)
      m5 == mat4_swap_elem(m4, in, out, 13, 7)
      m6 == mat4_swap_elem(m5, in, out, 14, 11)
      m7 == Cp(m6, in, 0, out, 0)
      m8 == Cp(m7, in, 5, out, 5)
      m9 == Cp(m8, in, 10, out, 10)
  IN Cp(m9, in, 15, out, 15)

\* temp[k] = (in[a] * in[b]) - (in[c] * in[d])
mat4_affine_minor(m, temp, k, in, a, b, c, d) ==
  St(m, temp, k, FSub(FMul(Ld(m, in, a), Ld(m, in, b)), FMul(Ld(m, in, c), Ld(m, in, d))))

\* out[k] = temp[k] * det
mat4_affine_scaled(m, out, k, temp, det) == St(m, out, k, FMul(Ld(m, temp, k), det))

\* out[k] = -((m12 * temp[j]) + (m13 * temp[j + 4]) + (m14 * temp[j + 8]))
mat4_affine_translation(m, out, k, temp, j, m12, m13, m14) ==
  St(m, out, k,
     FNeg(FAdd(FAdd(FMul(m12, Ld(m, temp, j)), FMul(m13, Ld(m, temp, j + 4))),
               FMul(m14, Ld(m, temp, j + 8)))))

\* mat4_inverse_affine from the determinant on, temp holding the nine products
mat4_inverse_affine_det(m, in, out, temp) ==
  LET det == FAdd(FAdd(FMul(Ld(m, in, 0), Ld(m, temp, 0)), FMul(Ld(m, in, 1), Ld(m, temp, 4))),
                  FMul(Ld(m, in, 2), Ld(m, temp, 8)))
  IN IF BelowEpsilon(s_fabs(det))
     THEN Result(Free(mat4_identity(m, out), temp[1]), 0)
     ELSE
       LET inv == FDiv(F(1), det)
           o0 == mat4_affine_scaled(m, out, 0, temp, inv)
           o1 == mat4_affine_scaled(o0, out, 1, temp, inv)
           o2 == mat4_affine_scaled(o1, out, 2, temp, inv)
           o3 == mat4_affine_scaled(o2, out, 4, temp, inv)
           o4 == mat4_affine_scaled(o3, out, 5, temp, inv)
           o5 == mat4_affine_scaled(o4, out, 6, temp, inv)
           o6 == mat4_affine_scaled(o5, out, 8, temp, inv)
           o7 == mat4_affine_scaled(o6, out, 9, temp, inv)
           o8 == mat4_affine_scaled(o7, out, 10, temp, inv)
           m12 == Ld(o8, in, 12)
           m13 == Ld(o8, in, 13)
           m14 == Ld(o8, in, 14)
           o9  == mat4_affine_translation(o8, out, 12, temp, 0, m12, m13, m14)
           o10 == mat4_affine_translation(o9, out, 13, temp, 1, m12, m13, m14)
           o11 == mat4_affine_translation(o10, out, 14, temp, 2, m12, m13, m14)
           o12 == StChain(o11, out, <<3, 7, 11>>, F(0), 3)
           o13 == St(o12, out, 15, F(1))
       IN Result(Free(o13, temp[1]), 1)

mat4_inverse_affine(m, in, out) ==
  LET temp == Ptr("mat4_inverse_affine.temp")
      t0 == Alloc(m, temp[1], 16)
      t1 == mat4_affine_minor(t0, temp, 0, in, 5, 10, 6, 9)
      t2 == mat4_affine_minor(t1, temp, 1, in, 2, 9, 1, 10)
      t3 == mat4_affine_minor(t2, temp, 2, in, 1, 6, 2, 5)
      t4 == mat4_affine_minor(t3, temp, 4, in, 6, 8, 4, 10)
      t5 == mat4_affine_minor(t4, temp, 5, in, 0, 10, 2, 8)
      t6 == mat4_affine_minor(t5, temp, 6, in, 2, 4, 0, 6)
      t7 == mat4_affine_minor(t6, temp, 8, in, 4, 9, 5, 8)
      t8 == mat4_affine_minor(t7, temp, 9, in, 1, 8, 0, 9)
      t9 == mat4_affine_minor(t8, temp, 10, in, 0, 5, 1, 4)
  IN mat4_inverse_affine_det(t9, in, out, temp)

\* the 3x3 determinant over rows r and columns c of the 4x4 matrix at p
mat4_cofactor(m, p, r0, r1, r2, c0, c1, c2) ==
  LET cofactor_addr(l, r) == Ld(m, p, l * 4 + r)
  IN FAdd(FSub(
       FMul(cofactor_addr(r0, c0),
            FSub(FMul(cofactor_addr(r1, c1), cofactor_addr(r2, c2)),
                 FMul(cofactor_addr(r2, c1), cofactor_addr(r1, c2)))),
       FMul(cofactor_addr(r0, c1),
            FSub(FMul(cofactor_addr(r1, c0), cofactor_addr(r2, c2)),
                 FMul(cofactor_addr(r2, c0), cofactor_addr(r1, c2))))),
       FMul(cofactor_addr(r0, c2),
            FSub(FMul(cofactor_addr(r1, c0), cofactor_addr(r2, c1)),
                 FMul(cofactor_addr(r2, c0), cofactor_addr(r1, c1)))))

\* 0..3 without k, in order
Omit(k) == SelectSeq(<<0, 1, 2, 3>>, LAMBDA x : x # k)

\* element k of the adjoint table: rows omit k % 4, columns omit k \div 4,
\* negated when row + column is odd
mat4_adjoint_elem(m, in, k) ==
  LET r == Omit(k % 4)
      c == Omit(k \div 4)
      v == mat4_cofactor(m, in, r[1], r[2], r[3], c[1], c[2], c[3])
  IN IF ((k % 4) + (k \div 4)) % 2 = 1 THEN FNeg(v) ELSE v

RECURSIVE mat4_adjoint_direct(_, _, _, _)
mat4_adjoint_direct(m, in, out, k) ==
  IF k >= 16 THEN m
  ELSE mat4_adjoint_direct(St(m, out, k, mat4_adjoint_elem(m, in, k)), in, out, k + 1)

\* mutant: the table is written straight to out even when out is in
mat4_adjoint_no_temp(m, in, out) == mat4_adjoint_direct(m, in, out, 0)

mat4_adjoint(m, in, out) ==
  IF in = out
  THEN LET temp == Ptr("mat4_adjoint.temp")
           m0 == StSeq(Alloc(m, temp[1], 16), temp,
                       [k \in 1..16 |-> mat4_adjoint_elem(m, in, k - 1)], 1)
       IN Free(mat4_copy(m0, temp, out), temp[1])
  ELSE mat4_adjoint_direct(m, in, out, 0)

mat4_determinant(m, p) ==
  FSub(FAdd(FSub(
      FMul(Ld(m, p, 0), mat4_cofactor(m, p, 1, 2, 3, 1, 2, 3)),
      FMul(Ld(m, p, 1), mat4_cofactor(m, p, 1, 2, 3, 0, 2, 3))),
      FMul(Ld(m, p, 2), mat4_cofactor(m, p, 1, 2, 3, 0, 1, 3))),
      FMul(Ld(m, p, 3), mat4_cofactor(m, p, 1, 2, 3, 0, 1, 2)))

mat4_inverse_general(m, in, out) ==
  LET det == mat4_determinant(m, in)
  IN IF BelowEpsilon(s_fabs(det))
     THEN Result(m, 0)
     ELSE Result(ScaleFrom(mat4_adjoint(m, in, out), out, FDiv(F(1), det), 0, 16), 1)

\* temp[k] = (cx * right[j]) + (cy * right[j + 1]) + (cz * right[j + 2]) + (cw * right[j + 3])
mat4_multiply_elem(m, temp, k, right, j, cx, cy, cz, cw) ==
  St(m, temp, k,
     FAdd(FAdd(FAdd(FMul(cx, Ld(m, right, j)), FMul(cy, Ld(m, right, j + 1))),
               FMul(cz, Ld(m, right, j + 2))), FMul(cw, Ld(m, right, j + 3))))

\* mutant: the row is not copied to cx..cw before it is overwritten
mat4_multiply_row_stale(m, temp, right, base) ==
  LET cx(mm) == Ld(mm, temp, base)
      cy(mm) == Ld(mm, temp, base + 1)
      cz(mm) == Ld(mm, temp, base + 2)
      cw(mm) == Ld(mm, temp, base + 3)
      step(mm, k, j) == mat4_multiply_elem(mm, temp, k, right, j, cx(mm), cy(mm), cz(mm), cw(mm))
  IN step(step(step(step(m, base, 0), base + 1, 4), base + 2, 8), base + 3, 12)

\* one pass of the product loop, index = base / 4
mat4_multiply_row(m, temp, right, base) ==
  LET cx == Ld(m, temp, base)
      cy == Ld(m, temp, base + 1)
      cz == Ld(m, temp, base + 2)
      cw == Ld(m, temp, base + 3)
      m1 == mat4_multiply_elem(m, temp, base, right, 0, cx, cy, cz, cw)
      m2 == mat4_multiply_elem(m1, temp, base + 1, right, 4, cx, cy, cz, cw)
      m3 == mat4_multiply_elem(m2, temp, base + 2, right, 8, cx, cy, cz, cw)
  IN mat4_multiply_elem(m3, temp, base + 3, right, 12, cx, cy, cz, cw)

\* mutant: the result is copied out without the transpose back
mat4_multiply_no_transpose_back(m, left, right, out) ==
  LET temp == Ptr("mat4_multiply.temp")
      m0 == Alloc(m, temp[1], 16)
      m1 == mat4_transpose(m0, left, temp)
      m2 == mat4_multiply_row(m1, temp, right, 0)
      m3 == mat4_multiply_row(m2, temp, right, 4)
      m4 == mat4_multiply_row(m3, temp, right, 8)
      m5 == mat4_multiply_row(m4, temp, right, 12)
      m6 == mat4_copy(m5, temp, out)
  IN Free(m6, temp[1])

mat4_multiply(m, left, right, out) ==
  LET temp == Ptr("mat4_multiply.temp")
      m0 == Alloc(m, temp[1], 16)
      m1 == mat4_transpose(m0, left, temp)
      m2 == mat4_multiply_row(m1, temp, right, 0)
      m3 == mat4_multiply_row(m2, temp, right, 4)
      m4 == mat4_multiply_row(m3, temp, right, 8)
      m5 == mat4_multiply_row(m4, temp, right, 12)
      m6 == mat4_transpose(m5, temp, out)
  IN Free(m6, temp[1])

\* out[k] = (x * left[k]) + (y * left[k + 4]) + (z * left[k + 8]) + left[k + 12]
mat4_transform_elem(m, left, out, k, x, y, z) ==
  St(m, out, k,
     FAdd(FAdd(FAdd(FMul(x, Ld(m, left, k)), FMul(y, Ld(m, left, k + 4))),
               FMul(z, Ld(m, left, k + 8))), Ld(m, left, k + 12)))

mat4_transform_vec3(m, left, right, out) ==
  LET x == Ld(m, right, 0)
      y == Ld(m, right, 1)
      z == Ld(m, right, 2)
      m1 == mat4_transform_elem(m, left, out, 0, x, y, z)
      m2 == mat4_transform_elem(m1, left, out, 1, x, y, z)
  IN mat4_transform_elem(m2, left, out, 2, x, y, z)

\* mat4_copy(g_mat4_identity, out), the global being no buffer of the caller
mat4_frustum(m, left, right, bottom, top, near, far, out) ==
  LET xdelta == FSub(right, left)
      ydelta == FSub(top, bottom)
      zdelta == FSub(far, near)
      neardouble == FMul(F(2), near)
  IN StSeq(m, out,
           << FDiv(neardouble, xdelta), F(0), FDiv(FAdd(right, left), xdelta), F(0),
              F(0), FDiv(neardouble, ydelta), FDiv(FAdd(top, bottom), ydelta), F(0),
              F(0), F(0), FNeg(FDiv(FAdd(far, near), zdelta)), F(0 - 1),
              F(0), F(0), FNeg(FDiv(FMul(neardouble, far), zdelta)), F(0) >>, 1)

\* r = s_tan(fov_y * 0.5 * S_DEG2RAD)
mat4_perspective_r(fov_y) == s_tan(FMul(FMul(fov_y, <<1, 2>>), S_DEG2RAD))

mat4_perspective(m, fov_y, aspect, near, far, out) ==
  LET r == mat4_perspective_r(fov_y)
      left == FMul(FNeg(r), aspect)
      right == FMul(r, aspect)
      bottom == FNeg(r)
      top == r
      two_near == FMul(F(2), near)
      zdelta == FDiv(F(1), FSub(near, far))
  IN StSeq(m, out,
           << FMul(two_near, FSub(right, left)), F(0), F(0), F(0),
              F(0), FDiv(two_near, FSub(top, bottom)), F(0), F(0),
              F(0), F(0), FMul(FAdd(far, near), zdelta), F(0 - 1),
              F(0), F(0), FMul(FMul(two_near, far), zdelta), F(0) >>, 1)

\* in[k + 12] + ((x * in[k]) + (y * in[k + 4]) + (z * in[k + 8]))
mat4_translate_elem(m, in, k, x, y, z) ==
  FAdd(Ld(m, in, k + 12),
       FAdd(FAdd(FMul(x, Ld(m, in, k)), FMul(y, Ld(m, in, k + 4))), FMul(z, Ld(m, in, k + 8))))

\* mutant: the fourth row is replaced by the translation
mat4_translate_overwrite(m, x, y, z, in, out) ==
  StSeq(IF in # out THEN mat4_copy(m, in, out) ELSE m,
        <<out[1], out[2] + 12>>, <<x, y, z, F(1)>>, 1)

mat4_translate(m, x, y, z, in, out) ==
  StSeq(IF in # out THEN mat4_copy(m, in, out) ELSE m,
        <<out[1], out[2] + 12>>,
        << mat4_translate_elem(m, in, 0, x, y, z), mat4_translate_elem(m, in, 1, x, y, z),
           mat4_translate_elem(m, in, 2, x, y, z), mat4_translate_elem(m, in, 3, x, y, z) >>, 1)

mat4_rotation(m, angle, x, y, z, out) ==
  LET angle_rad == FMul(angle, S_DEG2RAD)
      c  == s_cos(angle_rad)
      s  == s_sin(angle_rad)
      ic == FSub(F(1), c)
      xy == FMul(FMul(x, y), ic)
      yz == FMul(FMul(y, z), ic)
      xz == FMul(FMul(x, z), ic)
      xs == FMul(s, x)
      ys == FMul(s, y)
      zs == FMul(s, z)
  IN StSeq(m, out,
           << FAdd(FMul(FMul(x, x), ic), c), FAdd(xy, zs), FSub(xz, ys), F(0),
              FSub(xy, zs), FAdd(FMul(FMul(y, y), ic), c), FAdd(yz, xs), F(0),
              FAdd(xz, ys), FSub(yz, xs), FAdd(FMul(FMul(z, z), ic), c), F(0),
              F(0), F(0), F(0), F(1) >>, 1)

mat4_from_quat(m, quat, out) ==
  LET tx == FMul(F(2), Ld(m, quat, 0))
      ty == FMul(F(2), Ld(m, quat, 1))
      tz == FMul(F(2), Ld(m, quat, 2))
      xx == FMul(tx, Ld(m, quat, 0))
      xy == FMul(tx, Ld(m, quat, 1))
      xz == FMul(tx, Ld(m, quat, 2))
      yy == FMul(ty, Ld(m, quat, 1))
      yz == FMul(tz, Ld(m, quat, 1))
      zz == FMul(tz, Ld(m, quat, 3))
      wx == FMul(tx, Ld(m, quat, 3))
      wy == FMul(ty, Ld(m, quat, 3))
      wz == FMul(tz, Ld(m, quat, 3))
  IN StSeq(m, out,
           << FSub(F(1), FAdd(yy, zz)), FSub(xy, wz), FAdd(xz, wy), F(0),
              FAdd(xy, wz), FSub(F(1), FAdd(xx, zz)), FSub(yz, wx), F(0),
              FSub(xz, wy), FAdd(yz, wx), FSub(F(1), FAdd(xx, yy)), F(0),
              F(0), F(0), F(0), F(1) >>, 1)

mat4_copy_identity(m, out) ==
  LET g  == Ptr("g_mat4_identity")
      m0 == [b \in (DOMAIN m) \cup {g[1]} |-> IF b = g[1] THEN g_mat4_identity ELSE m[b]]
  IN Free(mat4_copy(m0, g, out), g[1])

\* mutant: x, y, z are stored to the fourth column
mat4_translation_column(m, x, y, z, out) ==
  St(St(St(mat4_copy_identity(m, out), out, 3, x), out, 7, y), out, 11, z)

mat4_translation(m, x, y, z, out) ==
  StSeq(mat4_copy_identity(m, out), <<out[1], out[2] + 12>>, <<x, y, z, F(1)>>, 1)

\* out[k] = (x * left[k]) + (y * left[k + 4]) + (z * left[k + 8])
mat4_rotate_elem(m, left, out, k, x, y, z) ==
  St(m, out, k,
     FAdd(FAdd(FMul(x, Ld(m, left, k)), FMul(y, Ld(m, left, k + 4))), FMul(z, Ld(m, left, k + 8))))

mat4_rotate_vec3(m, left, right, out) ==
  LET x == Ld(m, right, 0)
      y == Ld(m, right, 1)
      z == Ld(m, right, 2)
      m1 == mat4_rotate_elem(m, left, out, 0, x, y, z)
      m2 == mat4_rotate_elem(m1, left, out, 1, x, y, z)
  IN mat4_rotate_elem(m2, left, out, 2, x, y, z)

----
(* vec2.c, vec3.c, vec4.c *)

vec3_copy(m, in, out) == CopyFrom(m, in, out, 0, 3)

\* out[i] = left[i] + right[i]
AddElem(m, left, right, out, i) == St(m, out, i, FAdd(Ld(m, left, i), Ld(m, right, i)))

vec3_add(m, left, right, out) ==
  AddElem(AddElem(AddElem(m, left, right, out, 0), left, right, out, 1), left, right, out, 2)

vec3_cross_product(m, left, right, out) ==
  LET x == FSub(FMul(Ld(m, left, 1), Ld(m, right, 2)), FMul(Ld(m, left, 2), Ld(m, right, 1)))
      y == FSub(FMul(Ld(m, left, 0), Ld(m, right, 2)), FMul(Ld(m, left, 2), Ld(m, right, 0)))
      z == FSub(FMul(Ld(m, left, 0), Ld(m, right, 1)), FMul(Ld(m, left, 1), Ld(m, right, 0)))
  IN St(St(St(m, out, 0, x), out, 1, y), out, 2, z)

vec3_dot_product(m, left, right) ==
  FAdd(FAdd(FMul(Ld(m, left, 0), Ld(m, right, 0)), FMul(Ld(m, left, 1), Ld(m, right, 1))),
       FMul(Ld(m, left, 2), Ld(m, right, 2)))

\* out[i] = v[i] * k for i = n-1 down to 0
RECURSIVE ScaleDown(_, _, _, _, _)
ScaleDown(m, v, k, out, i) ==
  IF i < 0 THEN m ELSE ScaleDown(St(m, out, i, FMul(Ld(m, v, i), k)), v, k, out, i - 1)

vec3_scale(m, v, scalar, out) == ScaleDown(m, v, scalar, out, 2)

vec2_divide(m, v, divisor, out) ==
  IF FNonZero(divisor)
  THEN Result(ScaleDown(m, v, FDiv(F(1), divisor), out, 1), 1)
  ELSE Result(m, 0)

vec3_divide(m, v, divisor, out) ==
  IF FNonZero(divisor)
  THEN Result(ScaleDown(m, v, FDiv(F(1), divisor), out, 2), 0)
  ELSE Result(m, 1)

vec4_divide(m, v, divisor, out) ==
  IF FNonZero(divisor)
  THEN Result(ScaleDown(m, v, FDiv(F(1), divisor), out, 3), 1)
  ELSE Result(m, 0)

vec2_length(m, v) == s_sqrt(FAdd(FMul(Ld(m, v, 0), Ld(m, v, 0)), FMul(Ld(m, v, 1), Ld(m, v, 1))))

vec3_length(m, v) == s_sqrt(vec3_dot_product(m, v, v))

vec4_dot_product(m, left, right) ==
  FAdd(vec3_dot_product(m, left, right), FMul(Ld(m, left, 3), Ld(m, right, 3)))

vec4_length(m, v) == s_sqrt(vec4_dot_product(m, v, v))

\* mutant: the division is not guarded
InverseAlways(mag) == FDiv(F(1), mag)

\* if (mag) mag = 1.0 / mag;
InverseIfNonZero(mag) == IF FNonZero(mag) THEN FDiv(F(1), mag) ELSE mag

\* out[i] = v[i] * k for i = i..n-1
RECURSIVE ScaleUp(_, _, _, _, _, _)
ScaleUp(m, v, k, out, i, n) ==
  IF i >= n THEN m ELSE ScaleUp(St(m, out, i, FMul(Ld(m, v, i), k)), v, k, out, i + 1, n)

vec2_normalize(m, in, out) == ScaleDown(m, in, InverseIfNonZero(vec2_length(m, in)), out, 1)

vec3_normalize(m, in, out) == ScaleUp(m, in, InverseIfNonZero(vec3_length(m, in)), out, 0, 3)

vec4_normalize(m, in, out) == ScaleUp(m, in, InverseIfNonZero(vec4_length(m, in)), out, 0, 4)

----
(* mat3.c: mat3_orthogonal, which calls the vec3 functions above *)

\* the rows of a mat3
S_MR == 0
S_MS == 3
S_MT == 6

\* &m[k]
Row(p, k) == <<p[1], p[2] + k>>

mat3_orthogonal(m, in, out) ==
  LET m1 == vec3_normalize(m, Row(in, S_MT), Row(out, S_MT))
      m2 == vec3_cross_product(m1, Row(in, S_MS), Row(in, S_MT), Row(out, S_MR))
      m3 == vec3_normalize(m2, Row(in, S_MR), Row(out, S_MR))
  IN vec3_cross_product(m3, Row(in, S_MT), Row(in, S_MR), Row(out, S_MS))

----
(* quat.c *)

quat_multiply(m, left, right, out) ==
  LET t1 == Ptr("quat_multiply.t1")
      t2 == Ptr("quat_multiply.t2")
      m0 == Alloc(Alloc(m, t1[1], 3), t2[1], 3)
      w1 == Ld(m0, left, 3)
      w2 == Ld(m0, right, 3)
      w  == FSub(FMul(w1, w2), vec3_dot_product(m0, left, right))
      m1 == vec3_copy(m0, right, t1)
      m2 == vec3_scale(m1, t1, w1, t1)
      m3 == vec3_copy(m2, left, t2)
      m4 == vec3_scale(m3, t2, w2, t2)
      m5 == vec3_add(m4, t1, t2, t1)
      m6 == vec3_cross_product(m5, right, left, t2)
      m7 == vec3_add(m6, t1, t2, t1)
      m8 == vec3_copy(m7, t1, out)
      m9 == St(m8, out, 3, w)
  IN Free(Free(m9, t1[1]), t2[1])

\* out[i] = -in[i]
NegElem(m, in, out, i) == St(m, out, i, FNeg(Ld(m, in, i)))

quat_negate(m, in, out) ==
  NegElem(NegElem(NegElem(NegElem(m, in, out, 0), in, out, 1), in, out, 2), in, out, 3)

\* mutant: w is negated as well
quat_inverse_negate_w(m, in, out) ==
  NegElem(NegElem(NegElem(NegElem(m, in, out, 0), in, out, 1), in, out, 2), in, out, 3)

quat_inverse(m, in, out) ==
  Cp(NegElem(NegElem(NegElem(m, in, out, 0), in, out, 1), in, out, 2), in, 3, out, 3)

\* vec3_scale(lxr_cross, 2.0 * left[3], lxr_cross)
quat_multiply_vec3_scale(m, left, lxr_cross) ==
  vec3_scale(m, lxr_cross, FMul(F(2), Ld(m, left, 3)), lxr_cross)

\* mutant: the last sum is stored without right
quat_multiply_vec3_no_right(m, left, right, out) ==
  LET lxr_cross  == Ptr("quat_multiply_vec3.lxr_cross")
      lxlr_cross == Ptr("quat_multiply_vec3.lxlr_cross")
      m0 == Alloc(Alloc(m, lxr_cross[1], 3), lxlr_cross[1], 3)
      m1 == vec3_cross_product(m0, left, right, lxr_cross)
      m2 == vec3_cross_product(m1, left, lxr_cross, lxlr_cross)
      m3 == quat_multiply_vec3_scale(m2, left, lxr_cross)
      m4 == vec3_scale(m3, lxlr_cross, F(2), lxlr_cross)
      m5 == vec3_add(m4, lxr_cross, lxlr_cross, lxr_cross)
      m6 == vec3_copy(m5, lxr_cross, out)
  IN Free(Free(m6, lxr_cross[1]), lxlr_cross[1])

quat_multiply_vec3(m, left, right, out) ==
  LET lxr_cross  == Ptr("quat_multiply_vec3.lxr_cross")
      lxlr_cross == Ptr("quat_multiply_vec3.lxlr_cross")
      m0 == Alloc(Alloc(m, lxr_cross[1], 3), lxlr_cross[1], 3)
      m1 == vec3_cross_product(m0, left, right, lxr_cross)
      m2 == vec3_cross_product(m1, left, lxr_cross, lxlr_cross)
      m3 == quat_multiply_vec3_scale(m2, left, lxr_cross)
      m4 == vec3_scale(m3, lxlr_cross, F(2), lxlr_cross)
      m5 == vec3_add(m4, lxr_cross, lxlr_cross, lxr_cross)
      m6 == vec3_add(m5, right, lxr_cross, out)
  IN Free(Free(m6, lxr_cross[1]), lxlr_cross[1])

\* quat_from_angle_axis once v is normalized: s and the four stores
quat_from_angle_axis_out(m, angle, v, out) ==
  LET half == FMul(angle, FMul(S_DEG2RAD, <<1, 2>>))
  IN St(ScaleUp(m, v, s_sin(half), out, 0, 3), out, 3, s_cos(half))

quat_from_angle_axis(m, angle, x, y, z, out) ==
  LET v  == Ptr("quat_from_angle_axis.v")
      m0 == StSeq(Alloc(m, v[1], 3), v, <<x, y, z>>, 1)
      m1 == vec3_normalize(m0, v, v)
  IN Free(quat_from_angle_axis_out(m1, angle, v, out), v[1])

\* r = out[k] = s_sqrt(e) * 0.5;  if (!float_is_zero(r)) r = 0.5 / r;
\* then the three stores of one case of quat_from_mat3: out[i] = vs[i] * r
quat_from_mat3_case(m, out, k, e, is, vs) ==
  LET r0 == FMul(s_sqrt(e), <<1, 2>>)
      r  == IF float_is_zero(r0) THEN r0 ELSE FDiv(<<1, 2>>, r0)
      m1 == St(m, out, k, r0)
      m2 == St(m1, out, is[1], FMul(vs[1], r))
      m3 == St(m2, out, is[2], FMul(vs[2], r))
  IN St(m3, out, is[3], FMul(vs[3], r))

\* the branch trace > 0.0
quat_from_mat3_trace(m, out, trace, vs) ==
  LET r0 == s_sqrt(FAdd(trace, F(1)))
      r  == FDiv(<<1, 2>>, r0)
      m1 == St(m, out, 3, FMul(r0, <<1, 2>>))
      m2 == St(m1, out, 0, FMul(vs[1], r))
      m3 == St(m2, out, 1, FMul(vs[2], r))
  IN St(m3, out, 2, FMul(vs[3], r))

\* index = 0; if (mat[8] > (index ? mat[4] : mat[0])) index = 2;
\* else if (mat[4] > mat[0]) index = 1;
quat_from_mat3_index(mat0, mat4, mat8) ==
  IF FLess(mat0, mat8) THEN 2 ELSE IF FLess(mat0, mat4) THEN 1 ELSE 0

quat_from_mat3(m, mat, out) ==
  LET m01 == Ld(m, mat, 3)
      m02 == Ld(m, mat, 6)
      m10 == Ld(m, mat, 1)
      m12 == Ld(m, mat, 7)
      m20 == Ld(m, mat, 2)
      m21 == Ld(m, mat, 5)
      mat0 == Ld(m, mat, 0)
      mat4 == Ld(m, mat, 4)
      mat8 == Ld(m, mat, 8)
      trace == FAdd(FAdd(mat0, mat4), mat8)
      index == quat_from_mat3_index(mat0, mat4, mat8)
  IN IF FLess(F(0), trace)
     THEN quat_from_mat3_trace(m, out, trace,
                               <<FSub(m12, m21), FSub(m20, m02), FSub(m01, m10)>>)
     ELSE CASE index = 0 ->
                 quat_from_mat3_case(m, out, 0, FAdd(FSub(mat0, FAdd(mat4, mat8)), F(1)),
                    <<1, 2, 3>>, <<FAdd(m10, m01), FAdd(m20, m02), FSub(m12, m21)>>)
            [] index = 1 ->
                 quat_from_mat3_case(m, out, 1, FAdd(FSub(mat4, FAdd(mat8, mat0)), F(1)),
                    <<0, 2, 3>>, <<FAdd(m10, m01), FAdd(m12, m21), FSub(m20, m02)>>)
            [] OTHER ->
                 quat_from_mat3_case(m, out, 2, FAdd(FSub(mat4, FAdd(mat0, mat4)), F(1)),
                    <<0, 1, 3>>, <<FAdd(m20, m02), FAdd(m21, m12), FSub(m01, m10)>>)

\* index = 0; if (mat[10] > mat[index * 5]) index = 2;
\* else if (mat[5] > mat[0]) index = 1;
quat_from_mat4_index(mat0, mat5, mat10) ==
  IF FLess(mat0, mat10) THEN 2 ELSE IF FLess(mat0, mat5) THEN 1 ELSE 0

\* r = s_sqrt(e);  out[index] = r * 0.5;  if (r) r = 0.5 / r;
\* then the three stores of one case of quat_from_mat4: out[i] = vs[i] * r
quat_from_mat4_case(m, out, index, e, is, vs) ==
  LET r0 == s_sqrt(e)
      r  == IF IsNaN(r0) \/ FNonZero(r0) THEN FDiv(<<1, 2>>, r0) ELSE r0
      m1 == St(m, out, index, FMul(r0, <<1, 2>>))
      m2 == St(m1, out, is[1], FMul(vs[1], r))
      m3 == St(m2, out, is[2], FMul(vs[2], r))
  IN St(m3, out, is[3], FMul(vs[3], r))

\* the diagonal element mat[k * 5]
quat_from_mat4_diag(m, mat, k) == Ld(m, mat, (k % 3) * 5)

\* the branch trace <= 0
quat_from_mat4_pivot(m, mat, out, index) ==
  LET e == FAdd(FSub(quat_from_mat4_diag(m, mat, index),
                     FAdd(quat_from_mat4_diag(m, mat, index + 1),
                          quat_from_mat4_diag(m, mat, index + 2))), F(1))
  IN CASE index = 0 ->
            quat_from_mat4_case(m, out, 0, e, <<1, 2, 3>>,
               << FAdd(Ld(m, mat, 1), Ld(m, mat, 4)), FAdd(Ld(m, mat, 2), Ld(m, mat, 8)),
                  FSub(Ld(m, mat, 9), Ld(m, mat, 6)) >>)
       [] index = 1 ->
            quat_from_mat4_case(m, out, 1, e, <<3, 2, 0>>,
               << FAdd(Ld(m, mat, 2), Ld(m, mat, 8)), FAdd(Ld(m, mat, 9), Ld(m, mat, 6)),
                  FSub(Ld(m, mat, 1), Ld(m, mat, 4)) >>)
       [] OTHER ->
            quat_from_mat4_case(m, out, 2, e, <<3, 0, 1>>,
               << FAdd(Ld(m, mat, 4), Ld(m, mat, 1)), FAdd(Ld(m, mat, 2), Ld(m, mat, 8)),
                  FSub(Ld(m, mat, 6), Ld(m, mat, 9)) >>)

quat_from_mat4(m, mat, out) ==
  LET trace == FAdd(FAdd(Ld(m, mat, 0), Ld(m, mat, 5)), Ld(m, mat, 10))
  IN IF FLess(F(0), trace)
     THEN quat_from_mat3_trace(m, out, trace,
             << FSub(Ld(m, mat, 9), Ld(m, mat, 6)), FSub(Ld(m, mat, 2), Ld(m, mat, 8)),
                FSub(Ld(m, mat, 4), Ld(m, mat, 1)) >>)
     ELSE quat_from_mat4_pivot(m, mat, out,
             quat_from_mat4_index(Ld(m, mat, 0), Ld(m, mat, 5), Ld(m, mat, 10)))

\* fminf(fmaxf(delta, 0.0), 1.0)
Clamp01(delta) == IF FLess(delta, F(0)) THEN F(0) ELSE IF FLess(F(1), delta) THEN F(1) ELSE delta

\* out[i] = (from[i] * scale0) + (d * scale1)
quat_slerp_elem(m, from, out, i, scale0, d, scale1) ==
  St(m, out, i, FAdd(FMul(Ld(m, from, i), scale0), FMul(d, scale1)))

\* quat_slerp from `angle = s_acos(dot)` on; d is <<dx, dy, dz, dw>>
quat_slerp_scaled(m, from, out, dot, d, delta) ==
  LET angle       == s_acos(dot)
      inverse_sin == FDiv(F(1), s_sin(dot))
      scale0      == FMul(s_sin(FMul(FSub(F(1), delta), angle)), inverse_sin)
      scale1      == FMul(s_sin(FMul(delta, angle)), inverse_sin)
      m1 == quat_slerp_elem(m, from, out, 0, scale0, d[1], scale1)
      m2 == quat_slerp_elem(m1, from, out, 1, scale0, d[2], scale1)
      m3 == quat_slerp_elem(m2, from, out, 2, scale0, d[3], scale1)
  IN quat_slerp_elem(m3, from, out, 3, scale0, d[4], scale1)

quat_slerp(m, from, to, delta, out) ==
  LET dot == vec4_dot_product(m, from, to)
      t   == <<Ld(m, to, 0), Ld(m, to, 1), Ld(m, to, 2), Ld(m, to, 3)>>
  IN IF FLess(dot, F(0))
     THEN quat_slerp_scaled(m, from, out, FNeg(dot),
                            <<FNeg(t[1]), FNeg(t[2]), FNeg(t[3]), FNeg(t[4])>>, Clamp01(delta))
     ELSE quat_slerp_scaled(m, from, out, dot, t, Clamp01(delta))

----
(* snow-math.c: the typed arrays of the Ruby binding *)
(* A Ruby VALUE is <<"int", n>>, <<"obj", name>> or Qnil.  An object is a   *)
(* record of the memory under its name: its class, the name of the buffer  *)
(* its data pointer points to, and its instance variables.                 *)

Qnil == <<"nil", 0>>

Fixnum(n) == <<"int", n>>

Object(name) == <<"obj", name>>

\* the class of a Fixnum is Integer (Fixnum before Ruby 2.4)
rb_obj_class(m, v) ==
  CASE v[1] = "int" -> "Integer"
    [] v[1] = "obj" -> m[v[2]].klass
    [] OTHER        -> "NilClass"

\* SM_IS_A(value, TYPE): rb_obj_is_kind_of; the classes here have no subclasses
SM_IS_A(m, v, klass) == v[1] = "obj" /\ m[v[2]].klass = klass

sm_mathtype_array_length(m, v) == Fixnum(m[v[2]].length)

\* ALLOC_N(TYPE, length), then MEMCPY(arr, source, TYPE, length) if source is given
AllocN(m, name, n) == Alloc(m, name, n)

Memcpy(m, arr, source, n) == CopyFrom(m, source, arr, 0, n)

\* Data_Wrap_Struct(klass, 0, free, arr) and the two rb_ivar_set
WrapArray(m, name, klass, arr, sm_length) ==
  [b \in (DOMAIN m) \cup {name} |->
     IF b = name
     THEN [klass |-> klass, data |-> arr[1], length |-> sm_length[2], cache |-> <<>>]
     ELSE m[b]]

\* sm_TYPE_array_new from `arr = ALLOC_N(...)` on, for elements of `size` values
sm_array_new_alloc(m, size, sm_self, sm_length_or_copy, length, copy_array) ==
  LET arr == Ptr("new.data")
      m0  == AllocN(m, arr[1], length * size)
  IN IF copy_array
     THEN LET m1 == Memcpy(m0, arr, Ptr(m[sm_length_or_copy[2]].data), length * size)
              sm_length == sm_mathtype_array_length(m, sm_length_or_copy)
          IN Result(WrapArray(m1, "new", rb_obj_class(m, sm_length), arr, sm_length),
                    Object("new"))
     ELSE Result(WrapArray(m0, "new", sm_self, arr, sm_length_or_copy), Object("new"))

sm_array_new(m, klass, size, sm_self, sm_length_or_copy) ==
  LET copy_array == SM_IS_A(m, sm_length_or_copy, klass)
      length == IF copy_array THEN m[sm_length_or_copy[2]].length ELSE sm_length_or_copy[2]
  IN IF length <= 0 THEN Result(m, Qnil)
     ELSE sm_array_new_alloc(m, size, sm_self, sm_length_or_copy, length, copy_array)

sm_vec3_array_new(m, sm_self, sm_length_or_copy) ==
  sm_array_new(m, "Vec3Array", 3, sm_self, sm_length_or_copy)

sm_mat4_array_new(m, sm_self, sm_length_or_copy) ==
  sm_array_new(m, "Mat4Array", 16, sm_self, sm_length_or_copy)

\* store(index, value) for index < length and a value with data of its own
sm_vec3_array_store(m, sm_self, index, sm_value) ==
  Result(vec3_copy(m, Ptr(m[sm_value[2]].data), <<m[sm_self[2]].data, 3 * index>>), sm_value)

sm_mat4_array_store(m, sm_self, index, sm_value) ==
  Result(mat4_copy(m, Ptr(m[sm_value[2]].data), <<m[sm_self[2]].data, 16 * index>>), sm_value)

\* rb_raise(rb_eRangeError, ...): the call returns no value
RangeError == <<"raise", "RangeError">>

\* rb_ary_entry, rb_ary_store on the cache, a Ruby Array indexed from 0
rb_ary_entry(ary, index) == IF index < Len(ary) THEN ary[index + 1] ELSE Qnil

rb_ary_store(ary, index, v) ==
  [k \in 1..(IF index + 1 > Len(ary) THEN index + 1 ELSE Len(ary)) |->
     IF k = index + 1 THEN v ELSE IF k <= Len(ary) THEN ary[k] ELSE Qnil]

\* storage that was released
Freed == <<>>

\* the names of the blocks the allocator hands out, and of the objects made
\* by fetch, in the order they are made
BlockNames == <<"block.1", "block.2", "block.3", "block.4">>

ViewNames == <<"view.1", "view.2", "view.3", "view.4">>

Fresh(names, m) ==
  names[CHOOSE i \in 1..Len(names) :
          /\ names[i] \notin DOMAIN m
          /\ \A j \in 1..(i - 1) : names[j] \in DOMAIN m]

\* the first n values of the block old, then values never written
Resized(old, n) == [i \in 0..(n - 1) |-> IF i \in DOMAIN old THEN old[i] ELSE Uninit]

\* REALLOC_N(RDATA(sm_self)->data, TYPE, n): the block is resized where it
\* is, or its values are moved to another block and it is released
ReallocN(m, self, n, moved) ==
  LET old == m[self].data
      new == Fresh(BlockNames, m)
  IN IF moved
     THEN [b \in (DOMAIN m) \cup {new} |->
             CASE b = new  -> Resized(m[old], n)
               [] b = old  -> Freed
               [] b = self -> [m[self] EXCEPT !.data = new]
               [] OTHER    -> m[b]]
     ELSE [m EXCEPT ![old] = Resized(m[old], n)]

sm_vec3_array_resize(m, sm_self, sm_new_length, moved) ==
  LET old_length == m[sm_self[2]].length
      new_length == sm_new_length[2]
  IN IF old_length = new_length THEN Result(m, sm_self)
     ELSE IF new_length < 1 THEN Result(m, RangeError)
     ELSE Result([ReallocN(m, sm_self[2], 3 * new_length, moved)
                    EXCEPT ![sm_self[2]].length = new_length, ![sm_self[2]].cache = <<>>],
                 sm_self)

\* Data_Wrap_Struct(s_sm_vec3_klass, 0, 0, arr[index]), with the ivar SOURCE,
\* stored in the cache
sm_vec3_array_fetch_new(m, self, index, inner) ==
  [b \in (DOMAIN m) \cup {inner} |->
     CASE b = inner -> [klass |-> "Vec3", data |-> m[self].data, offset |-> 3 * index,
                        source |-> self]
       [] b = self  -> [m[self] EXCEPT !.cache = rb_ary_store(m[self].cache, index, Object(inner))]
       [] OTHER     -> m[b]]

sm_vec3_array_fetch(m, sm_self, sm_index) ==
  LET length == m[sm_self[2]].length
      index == sm_index[2]
      sm_inner == rb_ary_entry(m[sm_self[2]].cache, index)
      inner == Fresh(ViewNames, m)
  IN IF index >= length THEN Result(m, RangeError)
     ELSE IF sm_inner = Qnil
     THEN Result(sm_vec3_array_fetch_new(m, sm_self[2], index, inner), Object(inner))
     ELSE Result(m, sm_inner)

----
(* The caller: a workspace of three buffers, and one call on it *)

Bufs == {"a", "b", "c"}

\* an array from a sequence of <<num, den>> pairs
ArrQ(s) == [i \in 0..(Len(s) - 1) |-> Norm(s[i + 1][1], s[i + 1][2])]

\* prior contents of a buffer the caller passes only as output
Mat3Junk == Arr(<<7, 7, 7,  7, 7, 7,  7, 7, 7>>)

Mat3Dense(x, y) == Arr(<<1, x, y,   y, 1 + x, 2,   x, 0 - 1, 1 + y>>)

\* rotation by 90 degrees about Z; two identical rows; a determinant of 2^-30,
\* which is not 0 but below S_FLOAT_EPSILON; a determinant of 1/8
Mat3Fixed ==
  { g_mat3_identity,
    Arr(<<0, 0 - 1, 0,   1, 0, 0,   0, 0, 1>>),
    Arr(<<1, 2, 3,   1, 2, 3,   0, 1, 4>>),
    ArrQ(<< <<1, 1024>>, <<0, 1>>, <<0, 1>>,
            <<0, 1>>, <<1, 1024>>, <<0, 1>>,
            <<0, 1>>, <<0, 1>>, <<1, 1024>> >>),
    ArrQ(<< <<1, 2>>, <<0, 1>>, <<0, 1>>,
            <<0, 1>>, <<1, 2>>, <<0, 1>>,
            <<0, 1>>, <<0, 1>>, <<1, 2>> >>) }

Mat3Inputs == {Mat3Dense(x, y) : x \in Vals, y \in Vals} \cup Mat3Fixed

Workspace(A, B, C) ==
  [b \in Bufs |-> IF b = "a" THEN A ELSE IF b = "b" THEN B ELSE C]

InitMat3 ==
  /\ \E A \in Mat3Inputs, B \in Mat3Inputs : mem = Workspace(A, B, Mat3Junk)
  /\ pre = mem
  /\ fn = ""
  /\ args = <<>>
  /\ ret = 0
  /\ done = <<>>

IsMat3(m) == DOMAIN m["a"] = 0..8

Call(name, a, m, r) ==
  /\ fn = ""
  /\ fn' = name
  /\ args' = a
  /\ mem' = m
  /\ ret' = r
  /\ UNCHANGED <<pre, done>>

\* the caller's next call, made on the result of the call `first`
Then(first, name, a, m, r) ==
  /\ fn = first
  /\ done' = Append(done, [fn |-> fn, args |-> args, pre |-> pre, ret |-> ret])
  /\ pre' = mem
  /\ fn' = name
  /\ args' = a
  /\ mem' = m
  /\ ret' = r

\* the longest sequence of calls
MaxCalls == 2

\* the first call, or one more call after the calls made
Step(name, a, m, r) ==
  \/ Call(name, a, m, r)
  \/ /\ fn # ""
     /\ Len(done) < MaxCalls - 1
     /\ Then(fn, name, a, m, r)

\* mat3_multiply(lhs, rhs, out) with lhs, rhs, out any of the caller's buffers
Mat3Multiply ==
  /\ IsMat3(mem)
  /\ \E lhs \in {"a", "b"}, rhs \in {"a", "b"}, out \in Bufs :
        Call("mat3_multiply", <<lhs, rhs, out>>,
             mat3_multiply(mem, Ptr(lhs), Ptr(rhs), Ptr(out)), 0)

\* mat3_inverse(in, out), out the input buffer or another one
Mat3Inverse ==
  /\ IsMat3(mem)
  /\ \E out \in {"a", "c"} :
        LET r == mat3_inverse(mem, Ptr("a"), Ptr(out))
        IN Call("mat3_inverse", <<"a", out>>, r.mem, r.ret)

Mat4Junk == Arr(<<7, 7, 7, 7,   7, 7, 7, 7,   7, 7, 7, 7,   7, 7, 7, 7>>)

Mat4Dense(x, y) ==
  Arr(<<1, x, y, 0,   y, 1 + x, 2, x,   x, 0 - 1, 1 + y, 1,   2, y, x, 1>>)

\* affine: last column 0, 0, 0, 1; translation in elements 12..14
Mat4Affine(x, y) ==
  Arr(<<1 + x, y, 0, 0,   0 - y, 1, x, 0,   1, 0, 1 + y, 0,   y, 2, 0 - x, 1>>)

\* a scale by 2 without and with a translation; two identical rows; a
\* determinant of 2^-30, not 0 but below S_FLOAT_EPSILON
Mat4Fixed ==
  { g_mat4_identity,
    Arr(<<2, 0, 0, 0,   0, 2, 0, 0,   0, 0, 2, 0,   0, 0, 0, 1>>),
    Arr(<<2, 0, 0, 0,   0, 2, 0, 0,   0, 0, 2, 0,   2, 0, 0, 1>>),
    Arr(<<1, 2, 3, 0,   1, 2, 3, 0,   0, 1, 4, 0,   5, 6, 7, 1>>),
    ArrQ(<< <<1, 1024>>, <<0, 1>>, <<0, 1>>, <<0, 1>>,
            <<0, 1>>, <<1, 1024>>, <<0, 1>>, <<0, 1>>,
            <<0, 1>>, <<0, 1>>, <<1, 1024>>, <<0, 1>>,
            <<3, 1>>, <<0, 1>>, <<1, 1>>, <<1, 1>> >>) }

Mat4Inputs ==
  {Mat4Dense(x, y) : x \in Vals, y \in Vals}
    \cup {Mat4Affine(x, y) : x \in Vals, y \in Vals} \cup Mat4Fixed

InitMat4 ==
  /\ \E A \in Mat4Inputs, B \in Mat4Inputs : mem = Workspace(A, B, Mat4Junk)
  /\ pre = mem
  /\ fn = ""
  /\ args = <<>>
  /\ ret = 0
  /\ done = <<>>

IsMat4(m) == DOMAIN m["a"] = 0..15

Mat4Multiply ==
  /\ IsMat4(mem)
  /\ \E left \in {"a", "b"}, right \in {"a", "b"}, out \in Bufs :
        Call("mat4_multiply", <<left, right, out>>,
             mat4_multiply(mem, Ptr(left), Ptr(right), Ptr(out)), 0)

Mat4InverseAffine ==
  /\ IsMat4(mem)
  /\ \E out \in {"a", "c"} :
        LET r == mat4_inverse_affine(mem, Ptr("a"), Ptr(out))
        IN Call("mat4_inverse_affine", <<"a", out>>, r.mem, r.ret)

Mat4InverseGeneral ==
  /\ IsMat4(mem)
  /\ \E out \in {"a", "c"} :
        LET r == mat4_inverse_general(mem, Ptr("a"), Ptr(out))
        IN Call("mat4_inverse_general", <<"a", out>>, r.mem, r.ret)

InitMat == InitMat3 \/ InitMat4

NextMat ==
  \/ Mat3Multiply
  \/ Mat3Inverse
  \/ Mat4Multiply
  \/ Mat4InverseAffine
  \/ Mat4InverseGeneral

SpecMat == InitMat /\ [][NextMat]_vars

----
(* Vectors: one call on a workspace of vec2, vec3 or vec4 buffers *)

Vec2Junk == Arr(<<7, 7>>)
Vec3Junk == Arr(<<7, 7, 7>>)
Vec4Junk == Arr(<<7, 7, 7, 7>>)

Vec2Inputs == {Arr(<<x, y>>) : x \in Vals, y \in Vals}
Vec3Inputs == {Arr(<<x, y, z>>) : x \in Vals, y \in Vals, z \in Vals}
Vec4Inputs == {Arr(<<x, y, z, 2>>) : x \in Vals, y \in Vals, z \in Vals}

\* divisors: integers, 0 among them, and their halves
Divisors == {F(d) : d \in Vals} \cup {Norm(d, 2) : d \in Vals}

InitVec ==
  /\ \/ \E A \in Vec2Inputs : mem = Workspace(A, Vec2Junk, Vec2Junk)
     \/ \E A \in Vec3Inputs, B \in Vec3Inputs : mem = Workspace(A, B, Vec3Junk)
     \/ \E A \in Vec4Inputs : mem = Workspace(A, Vec4Junk, Vec4Junk)
  /\ pre = mem
  /\ fn = ""
  /\ args = <<>>
  /\ ret = 0
  /\ done = <<>>

IsVec2(m) == DOMAIN m["a"] = 0..1
IsVec3(m) == DOMAIN m["a"] = 0..2
IsVec4(m) == DOMAIN m["a"] = 0..3

Vec3CrossProduct ==
  /\ IsVec3(mem)
  /\ \E out \in Bufs :
        Call("vec3_cross_product", <<"a", "b", out>>,
             vec3_cross_product(mem, Ptr("a"), Ptr("b"), Ptr(out)), 0)

Vec2Divide ==
  /\ IsVec2(mem)
  /\ \E divisor \in Divisors, out \in {"a", "c"} :
        LET r == vec2_divide(mem, Ptr("a"), divisor, Ptr(out))
        IN Call("vec2_divide", <<"a", divisor, out>>, r.mem, r.ret)

Vec3Divide ==
  /\ IsVec3(mem)
  /\ \E divisor \in Divisors, out \in {"a", "c"} :
        LET r == vec3_divide(mem, Ptr("a"), divisor, Ptr(out))
        IN Call("vec3_divide", <<"a", divisor, out>>, r.mem, r.ret)

Vec4Divide ==
  /\ IsVec4(mem)
  /\ \E divisor \in Divisors, out \in {"a", "c"} :
        LET r == vec4_divide(mem, Ptr("a"), divisor, Ptr(out))
        IN Call("vec4_divide", <<"a", divisor, out>>, r.mem, r.ret)

NextVec ==
  \/ Vec3CrossProduct
  \/ Vec2Divide
  \/ Vec3Divide
  \/ Vec4Divide

SpecVec == InitVec /\ [][NextVec]_vars

----
(* Quaternions: one call on a workspace of quat buffers *)

QuatJunk == Arr(<<7, 7, 7, 7>>)

QuatInputs ==
  {Arr(<<x, y, z, w>>) : x \in Vals, y \in Vals, z \in {0, 1}, w \in {0, 1}}

InitQuat ==
  /\ \E A \in QuatInputs, B \in QuatInputs : mem = Workspace(A, B, QuatJunk)
  /\ pre = mem
  /\ fn = ""
  /\ args = <<>>
  /\ ret = 0
  /\ done = <<>>

QuatMultiply ==
  \E left \in {"a", "b"}, right \in {"a", "b"}, out \in Bufs :
     Call("quat_multiply", <<left, right, out>>,
          quat_multiply(mem, Ptr(left), Ptr(right), Ptr(out)), 0)

NextQuat == QuatMultiply

SpecQuat == InitQuat /\ [][NextQuat]_vars

----
(* Rotations: a unit quaternion in a, a vector in b, and up to two calls *)

\* unit vectors with rational components
UnitAxes ==
  { <<F(1), F(0), F(0)>>, <<F(0), F(1), F(0)>>, <<F(0), F(0), F(1)>>,
    <<<<3, 5>>, <<4, 5>>, F(0)>>, <<<<2, 3>>, <<0 - 2, 3>>, <<1, 3>>>> }

\* <<sin, cos>> of half the rotation angle, rational
HalfAngles ==
  { <<F(0), F(1)>>, <<F(1), F(0)>>, <<<<3, 5>>, <<4, 5>>>>, <<<<4, 5>>, <<0 - 3, 5>>>> }

\* the quaternion (v * s, c) as a buffer
QuatOf(v, s, c) == ArrQ(<<FMul(v[1], s), FMul(v[2], s), FMul(v[3], s), c>>)

UnitQuats == {QuatOf(v, h[1], h[2]) : v \in UnitAxes, h \in HalfAngles}

\* vectors (x, y, z) kept in a quat-sized buffer as (x, y, z, 0)
RotVectors ==
  {QuatOf(v, F(1), F(0)) : v \in UnitAxes}
    \cup {Arr(<<1, 1, 0, 0>>), Arr(<<1, 2, 0 - 1, 0>>), Arr(<<0, 0, 0, 0>>)}

InitRot ==
  /\ \E A \in UnitQuats, B \in RotVectors : mem = Workspace(A, B, Mat3Junk)
  /\ pre = mem
  /\ fn = ""
  /\ args = <<>>
  /\ ret = 0
  /\ done = <<>>

QuatMultiplyVec3 ==
  \E out \in {"b", "c"} :
     Call("quat_multiply_vec3", <<"a", "b", out>>,
          quat_multiply_vec3(mem, Ptr("a"), Ptr("b"), Ptr(out)), 0)

QuatInverse ==
  \E out \in {"a", "c"} :
     Call("quat_inverse", <<"a", out>>, quat_inverse(mem, Ptr("a"), Ptr(out)), 0)

\* q * inverse(q) and inverse(q) * q, the inverse having been written to c
QuatMultiplyInverse ==
  /\ args = <<"a", "c">>
  /\ \E left \in {"a", "c"}, out \in Bufs :
        LET right == IF left = "a" THEN "c" ELSE "a"
        IN Then("quat_inverse", "quat_multiply", <<left, right, out>>,
                quat_multiply(mem, Ptr(left), Ptr(right), Ptr(out)), 0)

\* q * (v, 0), written over (v, 0), the inverse of q having been written to c
QuatMultiplyPure ==
  /\ args = <<"a", "c">>
  /\ Then("quat_inverse", "quat_multiply", <<"a", "b", "b">>,
          quat_multiply(mem, Ptr("a"), Ptr("b"), Ptr("b")), 0)

\* (q * (v, 0)) * inverse(q)
QuatMultiplyBack ==
  /\ args = <<"a", "b", "b">>
  /\ Len(done) = 1
  /\ Then("quat_multiply", "quat_multiply", <<"b", "c", "b">>,
          quat_multiply(mem, Ptr("b"), Ptr("c"), Ptr("b")), 0)

Mat3FromQuat ==
  /\ IsVec4(mem)
  /\ Call("mat3_from_quat", <<"a", "c">>, mat3_from_quat(mem, Ptr("a"), Ptr("c")), 0)

QuatFromMat3 ==
  Then("mat3_from_quat", "quat_from_mat3", <<"c", "b">>,
       quat_from_mat3(mem, Ptr("c"), Ptr("b")), 0)

\* angles in degrees
Angles == {F(0), F(90), F(180)}

\* the axis is the vector in b
QuatFromAngleAxis ==
  \E angle \in Angles :
     LET x == Ld(mem, Ptr("b"), 0)
         y == Ld(mem, Ptr("b"), 1)
         z == Ld(mem, Ptr("b"), 2)
     IN Call("quat_from_angle_axis", <<angle, x, y, z, "c">>,
             quat_from_angle_axis(mem, angle, x, y, z, Ptr("c")), 0)

\* the quaternion just built rotates its own axis
QuatRotateAxis ==
  Then("quat_from_angle_axis", "quat_multiply_vec3", <<"c", "b", "a">>,
       quat_multiply_vec3(mem, Ptr("c"), Ptr("b"), Ptr("a")), 0)

Deltas == {F(0), <<1, 2>>, F(1)}

QuatSlerp ==
  \E delta \in Deltas :
     Then("quat_from_angle_axis", "quat_slerp", <<"a", "c", delta, "b">>,
          quat_slerp(mem, Ptr("a"), Ptr("c"), delta, Ptr("b")), 0)

NextRot ==
  \/ QuatMultiplyVec3
  \/ QuatInverse
  \/ QuatMultiplyInverse
  \/ QuatMultiplyPure
  \/ QuatMultiplyBack
  \/ Mat3FromQuat
  \/ QuatFromMat3
  \/ QuatFromAngleAxis
  \/ QuatRotateAxis
  \/ QuatSlerp

SpecRot == InitRot /\ [][NextRot]_vars

----
(* Matrices applied to vectors: a matrix in a, a vec3 in b, up to two calls *)

InitXf ==
  /\ \/ \E A \in Mat3Inputs \cup {Mat3Junk}, B \in Vec3Inputs :
           mem = Workspace(A, B, Vec3Junk)
     \/ \E B \in Vec3Inputs : mem = Workspace(Mat4Junk, B, Vec3Junk)
     \/ \E B \in Vec3Inputs : mem = Workspace(Mat3Junk, B, Mat4Junk)
  /\ pre = mem
  /\ fn = ""
  /\ args = <<>>
  /\ ret = 0
  /\ done = <<>>

\* degrees whose sine and cosine are 0, 1 or -1
RightAngles == {F(0), F(90), F(180), F(0 - 90)}

\* the coordinate axes, and a unit axis between X and Y
Axes ==
  { <<F(1), F(0), F(0)>>, <<F(0), F(1), F(0)>>, <<F(0), F(0), F(1)>>,
    <<<<3, 5>>, <<4, 5>>, F(0)>> }

\* mat3_rotation(angle, x, y, z, out) into a buffer not yet written
Mat3Rotation ==
  /\ mem["a"] = Mat3Junk
  /\ \E angle \in RightAngles, v \in Axes :
        Call("mat3_rotation", <<angle, v[1], v[2], v[3], "a">>,
             mat3_rotation(mem, angle, v[1], v[2], v[3], Ptr("a")), 0)

Mat3RotateVec3 ==
  \E out \in {"b", "c"} :
     Then("mat3_rotation", "mat3_rotate_vec3", <<"a", "b", out>>,
          mat3_rotate_vec3(mem, Ptr("a"), Ptr("b"), Ptr(out)), 0)

\* mat4_rotation with the angle and the axis of the mat3_rotation before it
Mat4Rotation ==
  /\ mem["c"] = Mat4Junk
  /\ Then("mat3_rotation", "mat4_rotation", <<args[1], args[2], args[3], args[4], "c">>,
          mat4_rotation(mem, args[1], args[2], args[3], args[4], Ptr("c")), 0)

\* column 3 is out of range: the default case
Mat3SetColumn3 ==
  /\ IsMat3(mem)
  /\ mem["a"] # Mat3Junk
  /\ \E column \in 0..3 :
        Call("mat3_set_column3", <<column, "b", "a">>,
             mat3_set_column3(mem, column, Ptr("b"), Ptr("a")), 0)

\* the column just set is read back
Mat3GetColumn3 ==
  Then("mat3_set_column3", "mat3_get_column3", <<"a", args[1], "c">>,
       mat3_get_column3(mem, Ptr("a"), args[1], Ptr("c")), 0)

Translations ==
  { <<F(1), F(2), F(3)>>, <<F(0), F(0), F(0)>>, <<F(0 - 1), <<1, 2>>, F(0)>> }

Mat4Translation ==
  /\ IsMat4(mem)
  /\ \E t \in Translations :
        Call("mat4_translation", <<t[1], t[2], t[3], "a">>,
             mat4_translation(mem, t[1], t[2], t[3], Ptr("a")), 0)

Mat4TransformVec3 ==
  \E out \in {"b", "c"} :
     Then("mat4_translation", "mat4_transform_vec3", <<"a", "b", out>>,
          mat4_transform_vec3(mem, Ptr("a"), Ptr("b"), Ptr(out)), 0)

Mat4RotateVec3 ==
  \E out \in {"b", "c"} :
     Then("mat4_translation", "mat4_rotate_vec3", <<"a", "b", out>>,
          mat4_rotate_vec3(mem, Ptr("a"), Ptr("b"), Ptr(out)), 0)

NextXf ==
  \/ Mat3Rotation
  \/ Mat3RotateVec3
  \/ Mat3SetColumn3
  \/ Mat3GetColumn3
  \/ Mat4Translation
  \/ Mat4TransformVec3
  \/ Mat4RotateVec3
  \/ Mat4Rotation

SpecXf == InitXf /\ [][NextXf]_vars

----
(* Normalization: one call of vecN_normalize on a vector in a *)

\* lengths 5, 5 and 2; a length of 1/2; lengths below 1 that are not rational
Vec2Fixed == {Arr(<<3, 4>>), ArrQ(<< <<1, 2>>, <<1, 2>> >>), ArrQ(<< <<0, 1>>, <<1, 2>> >>)}
Vec3Fixed == {Arr(<<0, 3, 4>>), Arr(<<1, 2, 2>>), ArrQ(<< <<1, 3>>, <<0, 1>>, <<1, 2>> >>)}
Vec4Fixed == {Arr(<<2, 0, 0, 0>>), Arr(<<1, 1, 1, 1>>), Arr(<<0, 0, 0, 0>>), Arr(<<0, 1, 0, 1>>)}

InitNorm ==
  /\ \/ \E A \in Vec2Inputs \cup Vec2Fixed : mem = Workspace(A, Vec2Junk, Vec2Junk)
     \/ \E A \in Vec3Inputs \cup Vec3Fixed : mem = Workspace(A, Vec3Junk, Vec3Junk)
     \/ \E A \in Vec4Inputs \cup Vec4Fixed : mem = Workspace(A, Vec4Junk, Vec4Junk)
  /\ pre = mem
  /\ fn = ""
  /\ args = <<>>
  /\ ret = 0
  /\ done = <<>>

Vec2Normalize ==
  /\ IsVec2(mem)
  /\ \E out \in {"a", "c"} :
        Call("vec2_normalize", <<"a", out>>, vec2_normalize(mem, Ptr("a"), Ptr(out)), 0)

Vec3Normalize ==
  /\ IsVec3(mem)
  /\ \E out \in {"a", "c"} :
        Call("vec3_normalize", <<"a", out>>, vec3_normalize(mem, Ptr("a"), Ptr(out)), 0)

Vec4Normalize ==
  /\ IsVec4(mem)
  /\ \E out \in {"a", "c"} :
        Call("vec4_normalize", <<"a", out>>, vec4_normalize(mem, Ptr("a"), Ptr(out)), 0)

NextNorm ==
  \/ Vec2Normalize
  \/ Vec3Normalize
  \/ Vec4Normalize

SpecNorm == InitNorm /\ [][NextNorm]_vars

----
(* Typed arrays: an array src and a value v, new, then store *)

\* the elements e1, e2 one after the other
Concat(e1, e2) ==
  LET n == Cardinality(DOMAIN e1)
  IN [i \in 0..(2 * n - 1) |-> IF i < n THEN e1[i] ELSE e2[i - n]]

Vec3Elems == {Arr(<<x, y, 1>>) : x \in Vals, y \in Vals}

Mat4Elems == {g_mat4_identity, Mat4Dense(1, 0), Mat4Affine(0, 1)}

\* the objects src and v with their data
Heap(klass, elems, length, vklass, velem) ==
  [b \in {"src", "src.data", "v", "v.data"} |->
     CASE b = "src"      -> [klass |-> klass, data |-> "src.data", length |-> length,
                             cache |-> <<>>]
       [] b = "src.data" -> elems
       [] b = "v"        -> [klass |-> vklass, data |-> "v.data"]
       [] OTHER          -> velem]

InitArr ==
  /\ \/ \E e \in Vec3Elems : mem = Heap("Vec3Array", e, 1, "Vec3", Vec3Junk)
     \/ \E e1 \in Vec3Elems, e2 \in Vec3Elems :
           mem = Heap("Vec3Array", Concat(e1, e2), 2, "Vec3", Vec3Junk)
     \/ \E e \in Mat4Elems : mem = Heap("Mat4Array", e, 1, "Mat4", Mat4Junk)
     \/ \E e1 \in Mat4Elems, e2 \in Mat4Elems :
           mem = Heap("Mat4Array", Concat(e1, e2), 2, "Mat4", Mat4Junk)
  /\ pre = mem
  /\ fn = ""
  /\ args = <<>>
  /\ ret = 0
  /\ done = <<>>

\* new(size) and new(array)
NewArgs == {Fixnum(0), Fixnum(1), Fixnum(2), Object("src")}

Vec3ArrayNew ==
  /\ mem["src"].klass = "Vec3Array"
  /\ \E arg \in NewArgs :
        LET r == sm_vec3_array_new(mem, "Vec3Array", arg)
        IN Call("sm_vec3_array_new", <<"Vec3Array", arg>>, r.mem, r.ret)

Mat4ArrayNew ==
  /\ mem["src"].klass = "Mat4Array"
  /\ \E arg \in NewArgs :
        LET r == sm_mat4_array_new(mem, "Mat4Array", arg)
        IN Call("sm_mat4_array_new", <<"Mat4Array", arg>>, r.mem, r.ret)

\* the arrays that exist and answer to `store`
Arrays(klass) == {o \in {"src", "new"} : o \in DOMAIN mem /\ mem[o].klass = klass}

Vec3ArrayStore ==
  \E o \in Arrays("Vec3Array") :
     \E index \in 0..(mem[o].length - 1) :
        LET r == sm_vec3_array_store(mem, Object(o), index, Object("v"))
        IN Then("sm_vec3_array_new", "sm_vec3_array_store",
                <<Object(o), index, Object("v")>>, r.mem, r.ret)

Mat4ArrayStore ==
  \E o \in Arrays("Mat4Array") :
     \E index \in 0..(mem[o].length - 1) :
        LET r == sm_mat4_array_store(mem, Object(o), index, Object("v"))
        IN Then("sm_mat4_array_new", "sm_mat4_array_store",
                <<Object(o), index, Object("v")>>, r.mem, r.ret)

\* fetch(index), index 2 is out of range
Vec3ArrayFetch ==
  \E o \in Arrays("Vec3Array") :
     \E index \in 0..2 :
        LET r == sm_vec3_array_fetch(mem, Object(o), Fixnum(index))
        IN Step("sm_vec3_array_fetch", <<Object(o), Fixnum(index)>>, r.mem, r.ret)

\* resize!(new_length); the allocator moves the block or leaves it in place
Vec3ArrayResize ==
  \E o \in Arrays("Vec3Array") :
     \E new_length \in 0..3, moved \in BOOLEAN :
        LET r == sm_vec3_array_resize(mem, Object(o), Fixnum(new_length), moved)
        IN Step("sm_vec3_array_resize", <<Object(o), Fixnum(new_length)>>, r.mem, r.ret)

NextArr ==
  \/ Vec3ArrayNew
  \/ Mat4ArrayNew
  \/ Vec3ArrayStore
  \/ Mat4ArrayStore
  \/ Vec3ArrayFetch
  \/ Vec3ArrayResize

SpecArr == InitArr /\ [][NextArr]_vars

----
(* Conversions: a quaternion from a mat3 and from the mat4 made of it *)

\* diagonal elements: every order of the three occurs, with traces on both
\* sides of 0
Diagonals == {0 - 2, 0 - 1, 0, 1}

\* a mat3 with the diagonal d0, d1, d2 and off-diagonal elements that are
\* multiples of k
PivotMat(d0, d1, d2, k) ==
  Arr(<<d0, k, 2 * k,   3 * k, d1, 0 - k,   k, 2 * k, d2>>)

PivotInputs ==
  {PivotMat(d0, d1, d2, k) : d0 \in Diagonals, d1 \in Diagonals, d2 \in Diagonals, k \in {0, 1}}

InitConv ==
  /\ \/ \E A \in PivotInputs : mem = Workspace(A, Mat4Junk, QuatJunk)
     \/ \E A \in UnitQuats \cup QuatInputs : mem = Workspace(A, Mat4Junk, Mat3Junk)
  /\ pre = mem
  /\ fn = ""
  /\ args = <<>>
  /\ ret = 0
  /\ done = <<>>

QuatFromMat3Direct ==
  /\ IsMat3(mem)
  /\ Call("quat_from_mat3", <<"a", "c">>, quat_from_mat3(mem, Ptr("a"), Ptr("c")), 0)

Mat3ToMat4 ==
  /\ IsMat3(mem)
  /\ Call("mat3_to_mat4", <<"a", "b">>, mat3_to_mat4(mem, Ptr("a"), Ptr("b")), 0)

Mat4FromQuat ==
  Then("mat3_from_quat", "mat4_from_quat", <<"a", "b">>,
       mat4_from_quat(mem, Ptr("a"), Ptr("b")), 0)

QuatFromMat4 ==
  Then("mat3_to_mat4", "quat_from_mat4", <<"b", "c">>,
       quat_from_mat4(mem, Ptr("b"), Ptr("c")), 0)

NextConv ==
  \/ QuatFromMat3Direct
  \/ Mat3ToMat4
  \/ QuatFromMat4
  \/ Mat3FromQuat
  \/ Mat4FromQuat

SpecConv == InitConv /\ [][NextConv]_vars

----
(* Building mat4s: the product with a translation matrix, then translate;  *)
(* a perspective projection, then the frustum of its bounds                *)

InitTranslate ==
  /\ \E A \in Mat4Inputs : mem = Workspace(A, Mat4Junk, Mat4Junk)
  /\ pre = mem
  /\ fn = ""
  /\ args = <<>>
  /\ ret = 0
  /\ done = <<>>

\* the translation matrix is built in b
Mat4TranslationMatrix ==
  \E t \in Translations :
     Call("mat4_translation", <<t[1], t[2], t[3], "b">>,
          mat4_translation(mem, t[1], t[2], t[3], Ptr("b")), 0)

\* c = mat4_multiply(a, b)
Mat4MultiplyTranslation ==
  Then("mat4_translation", "mat4_multiply", <<"a", "b", "c">>,
       mat4_multiply(mem, Ptr("a"), Ptr("b"), Ptr("c")), 0)

\* translate a by the same x, y, z, in place or into b
Mat4Translate ==
  \E out \in {"a", "b"} :
     LET t == done[1].args
     IN Then("mat4_multiply", "mat4_translate", <<t[1], t[2], t[3], "a", out>>,
             mat4_translate(mem, t[1], t[2], t[3], Ptr("a"), Ptr(out)), 0)

\* vertical fields of view in degrees, aspect ratios, near and far planes
FieldsOfView == {F(60), F(90), F(120)}

Aspects == {F(1), F(2), <<4, 3>>}

NearPlanes == {F(1), <<1, 2>>}

FarPlanes == {F(10), F(4)}

Mat4Perspective ==
  \E fov_y \in FieldsOfView, aspect \in Aspects, near \in NearPlanes, far \in FarPlanes :
     Call("mat4_perspective", <<fov_y, aspect, near, far, "b">>,
          mat4_perspective(mem, fov_y, aspect, near, far, Ptr("b")), 0)

\* the frustum of the bounds derived from r = tan(fov_y / 2)
Mat4Frustum ==
  LET r == mat4_perspective_r(args[1])
      left == FMul(FNeg(r), args[2])
      right == FMul(r, args[2])
  IN Then("mat4_perspective", "mat4_frustum",
          <<left, right, FNeg(r), r, args[3], args[4], "c">>,
          mat4_frustum(mem, left, right, FNeg(r), r, args[3], args[4], Ptr("c")), 0)

NextTranslate ==
  \/ Mat4TranslationMatrix
  \/ Mat4MultiplyTranslation
  \/ Mat4Translate
  \/ Mat4Perspective
  \/ Mat4Frustum

SpecTranslate == InitTranslate /\ [][NextTranslate]_vars

----
(* Orthogonalising a mat3, in place and into another buffer *)

OrthoRows ==
  { <<1, 0, 0>>, <<0, 1, 0>>, <<0, 0, 1>>, <<0, 3, 4>>, <<1, 2, 2>>, <<2, 0, 0>> }

OrthoInputs == {Arr(r \o s \o t) : r \in OrthoRows, s \in OrthoRows, t \in OrthoRows}

InitOrtho ==
  /\ \E A \in OrthoInputs : mem = Workspace(A, Mat3Junk, Mat3Junk)
  /\ pre = mem
  /\ fn = ""
  /\ args = <<>>
  /\ ret = 0
  /\ done = <<>>

\* orthogonal(output) with output = self or another mat3
Mat3Orthogonal ==
  \E out \in {"a", "b"} :
     Call("mat3_orthogonal", <<"a", out>>, mat3_orthogonal(mem, Ptr("a"), Ptr(out)), 0)

NextOrtho == Mat3Orthogonal

SpecOrtho == InitOrtho /\ [][NextOrtho]_vars

----
(* Unit quaternions: sequences of multiply, inverse, negate and rotate *)

\* the 24 Hurwitz units: (+-1, 0, 0, 0) in any place and (+-1/2, +-1/2, +-1/2, +-1/2)
Halves == {Norm(n, 2) : n \in (0 - 2)..2}

HurwitzUnits ==
  { q \in {ArrQ(<<x, y, z, w>>) : x \in Halves, y \in Halves, z \in Halves, w \in Halves} :
      FAdd(FAdd(FMul(q[0], q[0]), FMul(q[1], q[1])),
           FAdd(FMul(q[2], q[2]), FMul(q[3], q[3]))) = F(1) }

\* the second operand
UnitOperands ==
  { Arr(<<1, 0, 0, 0>>), Arr(<<0, 0, 1, 0>>), Arr(<<0, 0, 0, 1>>),
    ArrQ(<< <<1, 2>>, <<1, 2>>, <<1, 2>>, <<1, 2>> >>),
    ArrQ(<< <<1, 2>>, <<0 - 1, 2>>, <<1, 2>>, <<0 - 1, 2>> >>) }

UnitVectors == {Arr(<<1, 0, 0>>), Arr(<<1, 2, 0 - 1>>)}

InitUnit ==
  /\ \E A \in HurwitzUnits, B \in UnitOperands, C \in UnitVectors : mem = Workspace(A, B, C)
  /\ pre = mem
  /\ fn = ""
  /\ args = <<>>
  /\ ret = 0
  /\ done = <<>>

\* a = a * b or a = b * a
UnitMultiply ==
  \E lr \in {<<"a", "b">>, <<"b", "a">>} :
     Step("quat_multiply", <<lr[1], lr[2], "a">>,
          quat_multiply(mem, Ptr(lr[1]), Ptr(lr[2]), Ptr("a")), 0)

UnitInverse ==
  Step("quat_inverse", <<"a", "a">>, quat_inverse(mem, Ptr("a"), Ptr("a")), 0)

UnitNegate ==
  Step("quat_negate", <<"a", "a">>, quat_negate(mem, Ptr("a"), Ptr("a")), 0)

\* the vector in c is rotated by a
UnitMultiplyVec3 ==
  Step("quat_multiply_vec3", <<"a", "c", "c">>,
       quat_multiply_vec3(mem, Ptr("a"), Ptr("c"), Ptr("c")), 0)

NextUnit ==
  \/ UnitMultiply
  \/ UnitInverse
  \/ UnitNegate
  \/ UnitMultiplyVec3

SpecUnit == InitUnit /\ [][NextUnit]_vars

----
(* Mathematics the claims are stated in *)

\* the N x N matrix product L * R of row-major arrays: element [i][j] at i*N + j
RECURSIVE DotRC(_, _, _, _, _, _)
DotRC(N, L, R, i, j, k) ==
  IF k >= N THEN F(0)
  ELSE FAdd(FMul(L[i * N + k], R[k * N + j]), DotRC(N, L, R, i, j, k + 1))

MatProd(N, L, R) ==
  [x \in 0..(N * N - 1) |-> DotRC(N, L, R, x \div N, x % N, 0)]

\* M without row i and column j, as an (N-1) x (N-1) row-major array
Minor(N, M, i, j) ==
  [x \in 0..((N - 1) * (N - 1) - 1) |->
     LET r == x \div (N - 1)
         c == x % (N - 1)
     IN M[(IF r < i THEN r ELSE r + 1) * N + (IF c < j THEN c ELSE c + 1)]]

\* determinant by expansion along the first column
RECURSIVE Det(_, _)
RECURSIVE DetCol(_, _, _)
DetCol(N, M, i) ==
  IF i >= N THEN F(0)
  ELSE LET t == FMul(M[i * N], Det(N - 1, Minor(N, M, i, 0)))
       IN FAdd(IF i % 2 = 1 THEN FNeg(t) ELSE t, DetCol(N, M, i + 1))

Det(N, M) == IF N = 1 THEN M[0] ELSE DetCol(N, M, 0)

\* the upper-left 3x3 block of a 4x4 array
Block3(M) == [x \in 0..8 |-> M[(x \div 3) * 4 + (x % 3)]]

IdentityN(N) == [x \in 0..(N * N - 1) |-> IF x \div N = x % N THEN F(1) ELSE F(0)]

\* |x| < S_FLOAT_EPSILON
NearZero(x) == BelowEpsilon(<<Abs(x[1]), x[2]>>)

IsAffine(M) == M[3] = F(0) /\ M[7] = F(0) /\ M[11] = F(0) /\ M[15] = F(1)

Points == { Arr(<<0, 0, 0>>), Arr(<<1, 0, 0>>), Arr(<<0, 1, 0>>),
            Arr(<<0, 0, 1>>), Arr(<<1, 2, 3>>) }

\* mat4_transform_vec3(M, p) into a fresh vec3
Transform(M, p) ==
  mat4_transform_vec3([left |-> M, right |-> p, out |-> Arr(<<7, 7, 7>>)],
                      Ptr("left"), Ptr("right"), Ptr("out")).out

IsMultiply == fn \in {"mat3_multiply", "mat4_multiply"}

Dim == IF fn \in {"mat3_multiply", "mat3_inverse"} THEN 3 ELSE 4

----
(* Claims *)

\* C1 (as stated): mat3_multiply and mat4_multiply write the row-major product
\* left * right: out[i][j] = sum over k of left[i][k] * right[k][j], element
\* [i][j] at flat index i*N + j.
C1_LeftTimesRight ==
  IsMultiply => mem[args[3]] = MatProd(Dim, pre[args[1]], pre[args[2]])

\* C1 (amended): mat3_multiply and mat4_multiply write the row-major product
\* right * left: out[i][j] = sum over k of right[i][k] * left[k][j], element
\* [i][j] at flat index i*N + j.
C1_RightTimesLeft ==
  IsMultiply => mem[args[3]] = MatProd(Dim, pre[args[2]], pre[args[1]])

\* a product of two matrices that do not commute was written to a third buffer
C1_Witness ==
  /\ fn = "mat4_multiply"
  /\ args = <<"a", "b", "c">>
  /\ MatProd(4, pre["a"], pre["b"]) # MatProd(4, pre["b"], pre["a"])
  /\ mem["c"] = MatProd(4, pre["b"], pre["a"])

\* C2: for every affine mat4 M whose 3x3 block has |determinant| >= EPSILON,
\* mat4_inverse_affine returns non-zero and out undoes M on every point:
\* mat4_transform_vec3(out, mat4_transform_vec3(M, p)) = p.
C2_AffineInverseUndoes ==
  (/\ fn = "mat4_inverse_affine"
   /\ IsAffine(pre[args[1]])
   /\ ~NearZero(Det(3, Block3(pre[args[1]]))))
  => /\ ret # 0
     /\ \A p \in Points : Transform(mem[args[2]], Transform(pre[args[1]], p)) = p

\* C5: when |mat3_determinant(in)| < EPSILON, mat3_inverse returns 0 and
\* writes no element of out.
C5_SingularLeavesOut ==
  (fn = "mat3_inverse" /\ NearZero(Det(3, pre[args[1]])))
  => (ret = 0 /\ mem = pre)

\* mat3_inverse was refused for a matrix with two identical rows, with out a
\* buffer of its own
C5_Witness ==
  /\ fn = "mat3_inverse"
  /\ args = <<"a", "c">>
  /\ ret = 0
  /\ mem["c"] = Mat3Junk
  /\ pre["a"][0] = pre["a"][3] /\ pre["a"][1] = pre["a"][4] /\ pre["a"][2] = pre["a"][5]
  /\ pre["a"][1] # F(0)

\* C6: whenever mat3_inverse or mat4_inverse_general returns 1, the product of
\* in (as it was before the call) and out is the identity matrix, also when
\* out is the same buffer as in.
C6_InverseTimesInput ==
  (fn \in {"mat3_inverse", "mat4_inverse_general"} /\ ret = 1)
  => /\ MatProd(Dim, pre[args[1]], mem[args[2]]) = IdentityN(Dim)
     /\ MatProd(Dim, mem[args[2]], pre[args[1]]) = IdentityN(Dim)

\* mat4_inverse_general inverted a matrix in place whose determinant is not 1
C6_Witness ==
  /\ fn = "mat4_inverse_general"
  /\ args = <<"a", "a">>
  /\ ret = 1
  /\ Det(4, pre["a"]) \notin {F(1), F(0 - 1)}
  /\ ~IsAffine(pre["a"])
  /\ MatProd(4, pre["a"], mem["a"]) = g_mat4_identity

\* the determinant an inverse tests: of the 3x3 block (affine), of the whole (general)
TestedDet ==
  IF fn = "mat4_inverse_affine" THEN Det(3, Block3(pre[args[1]])) ELSE Det(4, pre[args[1]])

\* C7 (as stated): when the determinant they test is below EPSILON in
\* magnitude, mat4_inverse_affine and mat4_inverse_general both return 0 and
\* leave out equal to the identity matrix.
C7_BothResetToIdentity ==
  (fn \in {"mat4_inverse_affine", "mat4_inverse_general"} /\ NearZero(TestedDet))
  => (ret = 0 /\ mem[args[2]] = g_mat4_identity)

\* C7 (amended): when the determinant they test is below EPSILON in magnitude,
\* both return 0; mat4_inverse_affine leaves out equal to the identity matrix,
\* mat4_inverse_general leaves out as it was.
C7_AffineResetsGeneralKeeps ==
  (fn \in {"mat4_inverse_affine", "mat4_inverse_general"} /\ NearZero(TestedDet))
  => /\ ret = 0
     /\ fn = "mat4_inverse_affine" => mem[args[2]] = g_mat4_identity
     /\ fn = "mat4_inverse_general" => mem[args[2]] = pre[args[2]]
     /\ \A b \in Bufs \ {args[2]} : mem[b] = pre[b]

\* mat4_inverse_general was refused for a singular matrix and left the
\* output buffer, which did not hold the identity, as it was
C7_Witness ==
  /\ fn = "mat4_inverse_general"
  /\ args = <<"a", "c">>
  /\ NearZero(Det(4, pre["a"]))
  /\ ret = 0
  /\ mem["c"] = Mat4Junk

\* C8: mat4_multiply(M, identity) = M and mat4_multiply(identity, M) = M.
C8_IdentityIsNeutral ==
  fn = "mat4_multiply" =>
    /\ pre[args[2]] = g_mat4_identity => mem[args[3]] = pre[args[1]]
    /\ pre[args[1]] = g_mat4_identity => mem[args[3]] = pre[args[2]]

\* a matrix that is neither symmetric nor affine was multiplied by the identity
C8_Witness ==
  /\ fn = "mat4_multiply"
  /\ args = <<"a", "b", "c">>
  /\ pre["b"] = g_mat4_identity
  /\ pre["a"][1] # pre["a"][4]
  /\ ~IsAffine(pre["a"])
  /\ mem["c"] = pre["a"]

\* the product as computed into a buffer that is neither operand
Unaliased ==
  IF fn = "mat3_multiply"
  THEN mat3_multiply([pre EXCEPT !["c"] = Mat3Junk], Ptr(args[1]), Ptr(args[2]), Ptr("c"))["c"]
  ELSE mat4_multiply([pre EXCEPT !["c"] = Mat4Junk], Ptr(args[1]), Ptr(args[2]), Ptr("c"))["c"]

\* C9: mat3_multiply and mat4_multiply called with out the left operand, the
\* right operand or both write exactly the values they write to a distinct
\* buffer, and change no other buffer.
C9_AliasingSafe ==
  (IsMultiply /\ args[3] \in {args[1], args[2]})
  => /\ mem[args[3]] = Unaliased
     /\ \A b \in Bufs \ {args[3]} : mem[b] = pre[b]

\* a product was written over its right operand, which differs from the left
C9_Witness ==
  /\ fn = "mat3_multiply"
  /\ args = <<"a", "b", "b">>
  /\ pre["a"] # pre["b"]
  /\ pre["a"] # g_mat3_identity
  /\ pre["b"] # g_mat3_identity
  /\ mem["b"] = Unaliased
  /\ mem["b"] # pre["b"]

Cross(l, r) ==
  [i \in 0..2 |->
     LET j == (i + 1) % 3
         k == (i + 2) % 3
     IN FSub(FMul(l[j], r[k]), FMul(l[k], r[j]))]

Dot3(l, r) == FAdd(FAdd(FMul(l[0], r[0]), FMul(l[1], r[1])), FMul(l[2], r[2]))

\* C3: vec3_cross_product writes the right-handed cross product
\* (ly*rz - lz*ry, lz*rx - lx*rz, lx*ry - ly*rx), so dot(left, out) = 0 and
\* dot(right, out) = 0.
C3_CrossProduct ==
  fn = "vec3_cross_product" =>
    LET l == pre[args[1]]
        r == pre[args[2]]
        o == mem[args[3]]
    IN /\ o = Cross(l, r)
       /\ Dot3(l, o) = F(0)
       /\ Dot3(r, o) = F(0)

IsDivide == fn \in {"vec2_divide", "vec3_divide", "vec4_divide"}

\* C4: vec2_divide, vec3_divide and vec4_divide return 1 when the divisor is
\* non-zero, having written v / divisor to out, and 0 when the divisor is zero.
C4_DivideFlag ==
  IsDivide =>
    IF args[2] # F(0)
    THEN /\ ret = 1
         /\ mem[args[3]] = [i \in DOMAIN pre[args[1]] |-> FDiv(pre[args[1]][i], args[2])]
    ELSE ret = 0

\* C10: quat_multiply writes w = w1*w2 - dot(v1, v2) and
\* v = v2*w1 + v1*w2 + cross(v2, v1), cross the right-handed cross product.
C10_QuatProduct ==
  fn = "quat_multiply" =>
    LET l == pre[args[1]]
        r == pre[args[2]]
        o == mem[args[3]]
        c == Cross(r, l)
    IN /\ o[3] = FSub(FMul(l[3], r[3]), Dot3(l, r))
       /\ \A i \in 0..2 : o[i] = FAdd(FAdd(FMul(r[i], l[3]), FMul(l[i], r[3])), c[i])

\* the first three elements of a buffer, and the first four
Vec3Of(b) == [i \in 0..2 |-> b[i]]
QuatOfBuf(b) == [i \in 0..3 |-> b[i]]

\* C11: for a unit quaternion q and a vector v, quat_multiply_vec3(q, v) is
\* the vector part of quat_multiply(quat_multiply(q, (v, 0)), quat_inverse(q)).
C11_RotateIsSandwich ==
  (fn = "quat_multiply" /\ Len(done) = 2) =>
    Vec3Of(mem[args[3]]) =
      Vec3Of(quat_multiply_vec3(done[1].pre, Ptr("a"), Ptr("b"), Ptr("c"))["c"])

\* C12: quat_from_mat3(mat3_from_quat(q)) is q or -q for a unit quaternion q.
C12_RoundTrip ==
  fn = "quat_from_mat3" =>
    LET q == done[1].pre["a"]
        o == QuatOfBuf(mem[args[2]])
    IN o = q \/ o = [i \in 0..3 |-> FNeg(q[i])]

\* C14: for a unit quaternion q, quat_multiply(q, quat_inverse(q)) and
\* quat_multiply(quat_inverse(q), q) are the identity quaternion (0, 0, 0, 1).
C14_InverseCancels ==
  (fn = "quat_multiply" /\ Len(done) = 1 /\ "c" \in {args[1], args[2]}) =>
    QuatOfBuf(mem[args[3]]) = Arr(<<0, 0, 0, 1>>)

\* C14 happens: inverse(q) * q was computed for a q that is not the identity
C14_Witness ==
  /\ fn = "quat_multiply"
  /\ done # <<>>
  /\ args = <<"c", "a", "b">>
  /\ done[1].pre["a"][0] = <<3, 5>>
  /\ mem["b"] = Arr(<<0, 0, 0, 1>>)

IsUnit3(v) == Dot3(v, v) = F(1)

Parallel(u, v) == Cross(u, v) = Arr(<<0, 0, 0>>)

\* C15: a quaternion whose vector part is a multiple of the unit axis a, as
\* quat_from_angle_axis builds it, leaves a in place:
\* quat_multiply_vec3(q, a) = a.
C15_AxisIsFixed ==
  fn = "quat_multiply_vec3" =>
    LET q == pre[args[1]]
        a == Vec3Of(pre[args[2]])
    IN (IsUnit3(a) /\ Parallel(Vec3Of(q), a)) => Vec3Of(mem[args[3]]) = a

\* C15 happens: quat_from_angle_axis(180, a) built q with vector part a # 0,
\* and q was applied to a
C15_Witness ==
  /\ fn = "quat_multiply_vec3"
  /\ done # <<>>
  /\ done[1].fn = "quat_from_angle_axis"
  /\ done[1].args[1] = F(180)
  /\ Vec3Of(pre["c"]) = Vec3Of(pre["b"])
  /\ pre["b"][0] = <<3, 5>>
  /\ Vec3Of(mem["a"]) = Vec3Of(pre["b"])

\* |x - y| < 1/100, a hundred steps of the grid of sin and cos
Close(x, y) == FLess(s_fabs(FSub(x, y)), <<1, 100>>)

\* C18: quat_slerp(identity, quat_from_angle_axis(90, 0, 0, 1), 0.5) is the
\* rotation by 45 degrees about Z, (0, 0, sin 22.5, cos 22.5).
C18_SlerpHalfway ==
  ( /\ fn = "quat_slerp"
    /\ pre["a"] = Arr(<<0, 0, 0, 1>>)
    /\ done[1].args = <<F(90), F(0), F(0), F(1), "c">>
    /\ args[3] = <<1, 2>> ) =>
    LET o    == mem[args[4]]
        half == FMul(<<45, 2>>, S_DEG2RAD)
    IN /\ o[0] = F(0)
       /\ o[1] = F(0)
       /\ Close(o[2], s_sin(half))
       /\ Close(o[3], s_cos(half))

\* C13: mat3_rotation(90, 0, 0, 1, m) followed by
\* mat3_rotate_vec3(m, (1, 0, 0), out) gives out = (0, 1, 0).
C13_QuarterTurnAboutZ ==
  ( /\ fn = "mat3_rotate_vec3"
    /\ done[1].args = <<F(90), F(0), F(0), F(1), "a">>
    /\ pre["b"] = Arr(<<1, 0, 0>>) ) =>
    mem[args[3]] = Arr(<<0, 1, 0>>)

\* C16: mat4_transform_vec3(mat4_translation(x, y, z), p) = p + (x, y, z) and
\* mat4_rotate_vec3(mat4_translation(x, y, z), p) = p.
C16_TranslationMovesPoints ==
  LET t == done[1].args
      p == pre["b"]
      o == mem[args[3]]
  IN /\ fn = "mat4_transform_vec3" => \A i \in 0..2 : o[i] = FAdd(p[i], t[i + 1])
     /\ fn = "mat4_rotate_vec3" => o = p

\* C16 happens: translation (1, 2, 3) took (0, 0, 0) to (1, 2, 3)
C16_Witness ==
  /\ fn = "mat4_transform_vec3"
  /\ done[1].args = <<F(1), F(2), F(3), "a">>
  /\ pre["b"] = Arr(<<0, 0, 0>>)
  /\ mem["c"] = Arr(<<1, 2, 3>>)

\* C19: after mat3_set_column3(c, v, m) with c in 0..2, mat3_get_column3(m, c)
\* returns v, and the elements of m outside column c are as before.
C19_ColumnSetThenGet ==
  (fn = "mat3_get_column3" /\ args[2] \in 0..2) =>
    LET c  == args[2]
        v  == done[1].pre["b"]
        m0 == done[1].pre["a"]
    IN /\ mem["c"] = v
       /\ \A i \in 0..8 : i % 3 # c => mem["a"][i] = m0[i]

\* the sum of the squares of the elements i..n of v
RECURSIVE SumSq(_, _, _)
SumSq(v, i, n) == IF i > n THEN F(0) ELSE FAdd(FMul(v[i], v[i]), SumSq(v, i + 1, n))

LengthSq(v) == SumSq(v, 0, Cardinality(DOMAIN v) - 1)

IsNormalize == fn \in {"vec2_normalize", "vec3_normalize", "vec4_normalize"}

\* the call of the state, repeated on the memory m with the output buffer out
Normalized(m, out) ==
  CASE fn = "vec2_normalize" -> vec2_normalize(m, Ptr("a"), Ptr(out))[out]
    [] fn = "vec3_normalize" -> vec3_normalize(m, Ptr("a"), Ptr(out))[out]
    [] OTHER                 -> vec4_normalize(m, Ptr("a"), Ptr(out))[out]

IsArrayNew == fn \in {"sm_vec3_array_new", "sm_mat4_array_new"}

IsArrayStore == fn \in {"sm_vec3_array_store", "sm_mat4_array_store"}

\* C20: new(source_array) returns a new array of the class of the source,
\* with its length and element values and with storage of its own: a later
\* store into either array leaves the other as it was.
C20_CopyConstruction ==
  /\ (IsArrayNew /\ args[2] = Object("src")) =>
        /\ ret = Object("new")
        /\ mem["new"].klass = pre["src"].klass
        /\ mem["new"].length = pre["src"].length
        /\ mem["new"].data # mem["src"].data
        /\ mem[mem["new"].data] = pre["src.data"]
        /\ mem["src.data"] = pre["src.data"]
  /\ (IsArrayStore /\ done[1].args[2] = Object("src")) =>
        LET other == IF args[1] = Object("src") THEN "new.data" ELSE "src.data"
        IN mem[other] = pre[other]

\* the lowest index of a largest of d[1], d[2], d[3], counted from 0
LargestIndex(d) ==
  CHOOSE i \in 0..2 :
    /\ \A j \in 0..2 : ~FLess(d[i + 1], d[j + 1])
    /\ \A j \in 0..(i - 1) : FLess(d[j + 1], d[i + 1])

\* C21: when the trace is not greater than 0, quat_from_mat3 and
\* quat_from_mat4 take as pivot the index of the largest of the diagonal
\* elements m00, m11, m22, the lowest such index when several are largest.
C21_PivotIsLargest ==
  /\ fn = "quat_from_mat3" =>
        LET d == <<pre["a"][0], pre["a"][4], pre["a"][8]>>
        IN ~FLess(F(0), FAdd(FAdd(d[1], d[2]), d[3])) =>
             quat_from_mat3_index(d[1], d[2], d[3]) = LargestIndex(d)
  /\ fn = "quat_from_mat4" =>
        LET d == <<pre["b"][0], pre["b"][5], pre["b"][10]>>
        IN ~FLess(F(0), FAdd(FAdd(d[1], d[2]), d[3])) =>
             quat_from_mat4_index(d[1], d[2], d[3]) = LargestIndex(d)

\* C28: quat_from_mat4(mat3_to_mat4(M)) writes the four components that
\* quat_from_mat3(M) writes.
C28_FromMat4AsFromMat3 ==
  fn = "quat_from_mat4" =>
    mem["c"] = quat_from_mat3(done[1].pre, Ptr("a"), Ptr("c"))["c"]

\* the rotation matrix of the quaternion (x, y, z, w), nine elements:
\* diagonal 1-2(yy+zz), 1-2(xx+zz), 1-2(xx+yy); off-diagonal pairs
\* 2(xy-wz) / 2(xy+wz), 2(xz+wy) / 2(xz-wy), 2(yz-wx) / 2(yz+wx)
RotationOf(q) ==
  LET x == q[0]
      y == q[1]
      z == q[2]
      w == q[3]
      P(a, b) == FMul(F(2), FMul(a, b))
  IN ArrQ(<< FSub(F(1), FAdd(P(y, y), P(z, z))), FSub(P(x, y), P(w, z)), FAdd(P(x, z), P(w, y)),
             FAdd(P(x, y), P(w, z)), FSub(F(1), FAdd(P(x, x), P(z, z))), FSub(P(y, z), P(w, x)),
             FSub(P(x, z), P(w, y)), FAdd(P(y, z), P(w, x)), FSub(F(1), FAdd(P(x, x), P(y, y))) >>)

\* C23: mat3_from_quat(q) and mat4_from_quat(q) are the rotation matrix of q:
\* the upper-left 3x3 block of the mat4 is the mat3, element for element, and
\* the other elements of the mat4 are those of the identity.
C23_FromQuatAgree ==
  fn = "mat4_from_quat" =>
    LET q  == pre["a"]
        m3 == mem["c"]
        m4 == mem["b"]
    IN /\ m3 = RotationOf(q)
       /\ \A r \in 0..2 : \A c \in 0..2 : m4[4 * r + c] = m3[3 * r + c]
       /\ \A i \in {3, 7, 11, 12, 13, 14} : m4[i] = F(0)
       /\ m4[15] = F(1)

\* C27: mat3_rotation and mat4_rotation of one angle and axis write the same
\* rotation: the nine elements of the mat3 are the upper-left 3x3 block of
\* the mat4, and mat3_rotate_vec3 and mat4_rotate_vec3 turn a vector alike.
C27_RotationsAgree ==
  fn = "mat4_rotation" =>
    /\ \A r \in 0..2 : \A c \in 0..2 : mem["c"][4 * r + c] = mem["a"][3 * r + c]
    /\ mat3_rotate_vec3(mem, Ptr("a"), Ptr("b"), Ptr("b"))["b"] =
         mat4_rotate_vec3(mem, Ptr("c"), Ptr("b"), Ptr("b"))["b"]

\* C24: mat4_translate(x, y, z, in, out) writes the matrix that
\* mat4_multiply(in, mat4_translation(x, y, z), out) writes, with elements
\* 0..11 those of in, whether out is in or another buffer.
C24_TranslateIsMultiply ==
  fn = "mat4_translate" =>
    /\ mem[args[5]] = mem["c"]
    /\ \A i \in 0..11 : mem[args[5]][i] = pre["a"][i]

\* C24 happens: a matrix that is not affine was translated in place by (1, 2, 3)
C24_Witness ==
  /\ fn = "mat4_translate"
  /\ args = <<F(1), F(2), F(3), "a", "a">>
  /\ pre["a"][7] # F(0)
  /\ mem["a"] = mem["c"]
  /\ mem["a"] # pre["a"]

\* C29: mat4_perspective(fov_y, aspect, near, far) writes the sixteen
\* elements that mat4_frustum writes for left = -r * aspect, right = r * aspect,
\* bottom = -r, top = r with r = tan(fov_y / 2).
C29_PerspectiveIsFrustum ==
  fn = "mat4_frustum" => mem["c"] = mem["b"]

\* the row of three elements at k of the mat3 b
RowOf(b, k) == [i \in 0..2 |-> b[k + i]]

\* u and v are equal within the tolerance of Close
Close3(u, v) == \A i \in 0..2 : Close(u[i], v[i])

\* u is v scaled to length 1, within that tolerance
IsNormalized(u, v) ==
  /\ Close(Dot3(u, u), F(1))
  /\ Close3(Cross(u, v), Arr(<<0, 0, 0>>))
  /\ FLess(F(0), Dot3(u, v))

\* C22: for an input whose second and third rows are linearly independent,
\* mat3_orthogonal writes the normalized third row as third row, the
\* normalized cross product of the second and third rows as first row and
\* cross(third, first) as second row; the rows are pairwise orthogonal.
C22_OrthonormalBasis ==
  fn = "mat3_orthogonal" =>
    LET s == RowOf(pre["a"], 3)
        t == RowOf(pre["a"], 6)
        R == RowOf(mem[args[2]], 0)
        S == RowOf(mem[args[2]], 3)
        T == RowOf(mem[args[2]], 6)
    IN ~Parallel(s, t) =>
         /\ IsNormalized(T, t)
         /\ IsNormalized(R, Cross(s, t))
         /\ Close3(S, Cross(T, R))
         /\ Close(Dot3(R, S), F(0))
         /\ Close(Dot3(R, T), F(0))
         /\ Close(Dot3(S, T), F(0))

\* C25: mat3_orthogonal(m, m) writes the nine values that
\* mat3_orthogonal(m, out) writes to another buffer out.
C25_OrthogonalInPlace ==
  fn = "mat3_orthogonal" =>
    LET other == IF args[2] = "a" THEN "b" ELSE "a"
    IN mem[args[2]] = mat3_orthogonal(pre, Ptr("a"), Ptr(other))[other]

\* C26: from unit quaternions, every quaternion that a sequence of
\* quat_multiply, quat_inverse and quat_negate arrives at has squared length
\* 1, and quat_multiply_vec3 by it keeps the squared length of the vector.
C26_UnitLengthKept ==
  /\ LengthSq(mem["a"]) = F(1)
  /\ fn = "quat_multiply_vec3" => LengthSq(mem["c"]) = LengthSq(pre["c"])

\* the objects that fetch has returned
Views == {v \in {ViewNames[i] : i \in 1..Len(ViewNames)} : v \in DOMAIN mem}

\* C30: after any sequence of new, fetch, store and resize! every object that
\* fetch(i) has returned refers to storage of the current buffer of its array,
\* at an index below the current length of the array.
C30_ViewsNeverDangle ==
  \A v \in Views :
     LET array == mem[mem[v].source]
     IN /\ mem[v].data = array.data
        /\ mem[mem[v].data] # Freed
        /\ mem[v].offset + 3 <= 3 * array.length

====
